---- MODULE Spec2Model ----
(***************************************************************************)
(* skillet: canonical skill store, targets, sync / status / remove /       *)
(* migrate use cases (internal/usecase, internal/skill), over the real     *)
(* filesystem semantics of RealFileSystem (os.Stat follows symlinks).      *)
(*                                                                         *)
(* Filesystem layout modelled:                                             *)
(*   <scope-root>/skills/<name>            <<scope, CategoryDefault, n>>   *)
(*   <scope-root>/skills/optional/<name>   <<scope, CategoryOptional, n>>  *)
(*   <target-root>/skills/<name>           <<target, scope, n>>            *)
(* Names are sequences of one-character strings.                           *)
(***************************************************************************)
EXTENDS Integers, Sequences, FiniteSets, TLC

\* ---------------------------------------------------------------- bounds
\* injected I/O failures per command
MaxFaults == 1
\* skill directories in the canonical store at the start
MaxStored == 2
\* entries lying under the targets' skills paths when sync or status starts
MaxPreexisting == 1
\* unmanaged directories under the targets' skills paths when migrate starts
MaxUnmanaged == 2
\* skill directories in the store, over the wider set of names
MaxNamed == 2
\* entries under the targets' skills paths, over the wider set of names
MaxListed == 1
\* entries under the targets' skills paths when Install or Uninstall is called
MaxHeld == 2
\* the longest string handed to ValidateName
MaxNameLen == 3

\* ------------------------------------------------------- program constants
ScopeGlobal == 0
ScopeProject == 1
CategoryDefault == 0
CategoryOptional == 1
maxSearchDepth == 5
maxValidationDepth == 5

Scopes == {ScopeGlobal, ScopeProject}
Categories == {CategoryDefault, CategoryOptional}

StrategySymlink == "symlink"
StrategyCopy == "copy"

SyncActionInstall == "install"
SyncActionUpdate == "update"
SyncActionSkip == "skip"
SyncActionError == "error"

MigrateActionMoved == "moved"
MigrateActionSkipped == "skipped"
MigrateActionRemoved == "removed"
MigrateActionError == "error"

defaultTargets == {"claude", "codex"}

\* ------------------------------------------------------------ name universe
NameA == <<"a">>
NameB == <<"b">>
NameAB == <<"a", "b">>
NameUpperB == <<"B">>
ValidNames == {NameA}
InvalidNames == {<<".", "a">>}
AllNames == ValidNames \cup InvalidNames

LowerSeq == <<"a","b","c","d","e","f","g","h","i","j","k","l","m","n","o","p","q","r","s","t","u","v","w","x","y","z">>
UpperSeq == <<"A","B","C","D","E","F","G","H","I","J","K","L","M","N","O","P","Q","R","S","T","U","V","W","X","Y","Z">>
DigitSeq == <<"0","1","2","3","4","5","6","7","8","9">>
LowerCase == {LowerSeq[i] : i \in DOMAIN LowerSeq}
UpperCase == {UpperSeq[i] : i \in DOMAIN UpperSeq}
Digits == {DigitSeq[i] : i \in DOMAIN DigitSeq}
AlphaNum == LowerCase \cup UpperCase \cup Digits

PosIn(seq, c) == CHOOSE i \in DOMAIN seq : seq[i] = c

\* the byte of a character: the order cmp.Compare and os.ReadDir sort by
CharCode(c) ==
  CASE c = "-" -> 45 [] c = "." -> 46 [] c = "/" -> 47
    [] c \in Digits -> 47 + PosIn(DigitSeq, c)
    [] c \in UpperCase -> 64 + PosIn(UpperSeq, c)
    [] c = "\\" -> 92 [] c = "_" -> 95
    [] c \in LowerCase -> 96 + PosIn(LowerSeq, c)

\* a faulty variant of ValidateName: the pattern lets any allowed character
\* come first
ValidateNameAnyFirst(name) ==
  /\ name # <<>>
  /\ \A i \in 1..Len(name) : name[i] # "/" /\ name[i] # "\\"
  /\ \A i \in 1..(Len(name) - 1) : ~(name[i] = "." /\ name[i + 1] = ".")
  /\ name[1] # "."
  /\ \A i \in 1..Len(name) : name[i] \in AlphaNum \cup {"_", "-"}

\* ValidateName: nil (TRUE) iff the name is safe
ValidateName(name) ==
  /\ name # <<>>
  /\ \A i \in 1..Len(name) : name[i] # "/" /\ name[i] # "\\"
  /\ \A i \in 1..(Len(name) - 1) : ~(name[i] = "." /\ name[i + 1] = ".")
  /\ name[1] # "."
  /\ name[1] \in AlphaNum
  /\ \A i \in 2..Len(name) : name[i] \in AlphaNum \cup {"_", "-"}

\* ------------------------------------------------------------- filesystem
\* A directory is summarised by: md, the depth of its nearest SKILL.md
\* (0 = directly inside, -1 = none); fm, whether that manifest has a
\* parseable frontmatter; id, the identity of its content.
NoEntry == [kind |-> "none"]
DirEntry(md, fm, id) == [kind |-> "dir", md |-> md, fm |-> fm, id |-> id]
LinkEntry(to) == [kind |-> "link", to |-> to]

StorePath(scope, cat, name) == <<"store", scope, cat, name>>
TargetPath(t, scope, name) == <<"tgt", t, scope, name>>

StoreKeys == Scopes \X Categories \X ValidNames
TargetKeys == defaultTargets \X Scopes \X ValidNames

Key(p) == <<p[2], p[3], p[4]>>

\* the entry names a ReadDir of the store's or the targets' directories can
\* return: the names the filesystem holds a place for
StoreNames(fs) == {k[3] : k \in DOMAIN fs.store}
TargetNames(fs) == {k[3] : k \in DOMAIN fs.tgt}

\* os.Lstat: the entry itself
Lstat(fs, p) == IF p[1] = "store" THEN fs.store[Key(p)] ELSE fs.tgt[Key(p)]

\* os.Stat: follows a symbolic link to what it points at
Stat(fs, p) ==
  LET e == Lstat(fs, p) IN
  IF e.kind = "link" THEN Lstat(fs, e.to) ELSE e

\* RealFileSystem.Exists: os.Stat succeeded (a dangling link does not exist)
Exists(fs, p) == Stat(fs, p).kind = "dir"

Put(fs, p, e) ==
  IF p[1] = "store"
  THEN [fs EXCEPT !.store[Key(p)] = e]
  ELSE [fs EXCEPT !.tgt[Key(p)] = e]

\* Every primitive returns [fs, err]; `fail` is an injected I/O failure.
RemoveAll(fs, p, fail) ==
  IF fail THEN [fs |-> fs, err |-> TRUE]
  ELSE [fs |-> Put(fs, p, NoEntry), err |-> FALSE]

\* os.Symlink: EEXIST when anything (even a dangling link) is at newname
Symlink(fs, oldname, newname, fail) ==
  IF fail \/ Lstat(fs, newname).kind # "none"
  THEN [fs |-> fs, err |-> TRUE]
  ELSE [fs |-> Put(fs, newname, LinkEntry(oldname)), err |-> FALSE]

\* CopyFile onto the file it reads: the file is opened for reading and then
\* opened again with O_TRUNC, so it is left empty; a directory copied onto
\* itself has every file emptied, the manifest included.
Emptied(e) ==
  IF e.id[1] = "emptied" THEN e ELSE DirEntry(e.md, FALSE, <<"emptied", e.id>>)

\* the directory a path names once a link at it is followed
Resolve(fs, p) == IF Lstat(fs, p).kind = "link" THEN Lstat(fs, p).to ELSE p

\* CopyDir: ReadDir(src) must succeed, MkdirAll(dst) must succeed (it fails
\* on a dangling link), then the files of src are written under dst; when
\* dst is a link to a directory the files land in that directory.
CopyDir(fs, src, dst, fail) ==
  LET s == Stat(fs, src)
      d == Lstat(fs, dst)
  IN
  IF fail \/ s.kind # "dir" THEN [fs |-> fs, err |-> TRUE]
  ELSE IF d.kind = "link"
       THEN IF Lstat(fs, d.to).kind # "dir" THEN [fs |-> fs, err |-> TRUE]
            ELSE IF d.to = Resolve(fs, src)
            THEN [fs |-> Put(fs, d.to, Emptied(s)), err |-> FALSE]
            ELSE [fs |-> Put(fs, d.to, s), err |-> FALSE]
       ELSE [fs |-> Put(fs, dst, s), err |-> FALSE]

\* os.Rename of a directory onto a free path
Rename(fs, oldpath, newpath, fail) ==
  IF fail \/ Lstat(fs, oldpath).kind = "none" \/ Lstat(fs, newpath).kind # "none"
  THEN [fs |-> fs, err |-> TRUE]
  ELSE [fs |-> Put(Put(fs, newpath, Lstat(fs, oldpath)), oldpath, NoEntry),
        err |-> FALSE]

\* ------------------------------------------------------ skill directories
\* skilldir.go / target.go: SKILL.md directly inside or in a subdirectory,
\* at most maxValidationDepth levels down.
RECURSIVE isValidSkillDirWithDepth(_, _)
isValidSkillDirWithDepth(dir, depth) ==
  IF depth > maxValidationDepth THEN FALSE
  ELSE IF dir.md = depth THEN TRUE
  ELSE IF dir.md > depth THEN isValidSkillDirWithDepth(dir, depth + 1)
  ELSE FALSE

isValidSkillDir(fs, p) ==
  LET d == Stat(fs, p) IN
  d.kind = "dir" /\ isValidSkillDirWithDepth(d, 0)

\* a faulty variant of findSkillFileWithDepth: the search gives up one
\* level early
RECURSIVE findSkillFileShallow(_, _)
findSkillFileShallow(dir, depth) ==
  IF depth >= maxSearchDepth THEN FALSE
  ELSE IF dir.md = depth THEN TRUE
  ELSE IF dir.md > depth THEN findSkillFileShallow(dir, depth + 1)
  ELSE FALSE

RECURSIVE findSkillFileWithDepth(_, _)
findSkillFileWithDepth(dir, depth) ==
  IF depth > maxSearchDepth THEN FALSE
  ELSE IF dir.md = depth THEN TRUE
  ELSE IF dir.md > depth THEN findSkillFileWithDepth(dir, depth + 1)
  ELSE FALSE

findSkillFile(dir) == findSkillFileWithDepth(dir, 0)

\* frontmatterRegex match and yaml.Unmarshal succeed
parseFrontmatter(dir) == dir.fm

\* ------------------------------------------------------------ skill entity
Skill(name, description, path, scope, category) ==
  [Name |-> name, Description |-> description, Path |-> path,
   Scope |-> scope, Category |-> category]

\* a faulty variant of NewSkill: the name is not validated
NewSkillUnchecked(name, description, path, scope, category) ==
  <<Skill(name, description, path, scope, category)>>

\* NewSkill: <<skill>> on success, <<>> when the name is invalid
NewSkill(name, description, path, scope, category) ==
  IF ValidateName(name)
  THEN <<Skill(name, description, path, scope, category)>>
  ELSE <<>>

Priority(s) ==
  CASE s.Scope = ScopeProject -> 2
    [] s.Scope = ScopeGlobal -> 1
    [] OTHER -> 0

\* cmp.Compare(a.Name, b.Name) < 0
RECURSIVE NameLess(_, _)
NameLess(a, b) ==
  IF b = <<>> THEN FALSE
  ELSE IF a = <<>> THEN TRUE
  ELSE IF CharCode(a[1]) # CharCode(b[1]) THEN CharCode(a[1]) < CharCode(b[1])
  ELSE NameLess(Tail(a), Tail(b))

\* os.ReadDir returns the entries sorted by file name
RECURSIVE SortedNames(_)
SortedNames(S) ==
  IF S = {} THEN <<>>
  ELSE LET m == CHOOSE x \in S : \A y \in S : ~NameLess(y, x)
       IN <<m>> \o SortedNames(S \ {m})

\* ------------------------------------------------------------------ Store
\* loadSkill: <<skill>> or <<>> (the error of a skill that cannot be loaded)
loadSkill(fs, p, scope, category) ==
  LET dir == Stat(fs, p) IN
  IF dir.kind # "dir" \/ ~findSkillFile(dir) THEN <<>>
  ELSE IF ~parseFrontmatter(dir) THEN <<>>
  ELSE NewSkill(p[4], dir.id, p, scope, category)

\* listSkillsInDir: the entries (directories or links) that are skill dirs
listSkillsInDir(fs, scope, category) ==
  SortedNames({n \in StoreNames(fs) :
                 /\ Lstat(fs, StorePath(scope, category, n)).kind # "none"
                 /\ isValidSkillDir(fs, StorePath(scope, category, n))})

\* a faulty variant of the loading loop: the first skill that cannot be
\* loaded ends the load of its directory
RECURSIVE loadNamesStopsAtFailure(_, _, _, _)
loadNamesStopsAtFailure(fs, names, scope, category) ==
  IF names = <<>> THEN <<>>
  ELSE LET sk == loadSkill(fs, StorePath(scope, category, Head(names)), scope, category)
       IN IF sk = <<>> THEN <<>>
          ELSE sk \o loadNamesStopsAtFailure(fs, Tail(names), scope, category)

RECURSIVE loadNames(_, _, _, _)
loadNames(fs, names, scope, category) ==
  IF names = <<>> THEN <<>>
  ELSE loadSkill(fs, StorePath(scope, category, Head(names)), scope, category)
         \o loadNames(fs, Tail(names), scope, category)

\* loadAllInDir: default skills then optional skills, unloadable ones skipped
loadAllInDir(fs, scope) ==
  [defaultSkills |-> loadNames(fs, listSkillsInDir(fs, scope, CategoryDefault),
                               scope, CategoryDefault),
   optionalSkills |-> loadNames(fs, listSkillsInDir(fs, scope, CategoryOptional),
                                scope, CategoryOptional)]

getGlobalSkills(fs) ==
  loadAllInDir(fs, ScopeGlobal).defaultSkills \o loadAllInDir(fs, ScopeGlobal).optionalSkills

\* root: whether a project root is known (s.projectRoot # "")
getProjectSkills(fs, root) ==
  IF ~root THEN <<>>
  ELSE loadAllInDir(fs, ScopeProject).defaultSkills
         \o loadAllInDir(fs, ScopeProject).optionalSkills

GetAll(fs, root) == getGlobalSkills(fs) \o getProjectSkills(fs, root)

GetByScope(fs, root, scope) ==
  IF scope = ScopeGlobal THEN getGlobalSkills(fs) ELSE getProjectSkills(fs, root)

\* a faulty variant of bestOf: the first skill of the name is returned
\* whatever its priority
RECURSIVE bestOfFirstMatch(_, _, _)
bestOfFirstMatch(skills, name, best) ==
  IF skills = <<>> THEN best
  ELSE LET sk == Head(skills) IN
       bestOfFirstMatch(Tail(skills), name,
                        IF sk.Name = name /\ best = <<>> THEN <<sk>> ELSE best)

RECURSIVE bestOf(_, _, _)
bestOf(skills, name, best) ==
  IF skills = <<>> THEN best
  ELSE LET sk == Head(skills) IN
       bestOf(Tail(skills), name,
              IF sk.Name = name /\ (best = <<>> \/ Priority(sk) > Priority(best[1]))
              THEN <<sk>> ELSE best)

\* GetByName: <<skill>> or <<>> (invalid name or not found)
GetByName(fs, root, name) ==
  IF ~ValidateName(name) THEN <<>>
  ELSE bestOf(GetAll(fs, root), name, <<>>)

\* ---- faulty variants of the fold and of GetResolved
\* the first skill of a name is kept whatever its priority
RECURSIVE foldBestKeepsFirst(_, _)
foldBestKeepsFirst(skills, best) ==
  IF skills = <<>> THEN best
  ELSE LET sk == Head(skills) IN
       foldBestKeepsFirst(Tail(skills),
                IF sk.Name \notin DOMAIN best
                THEN [n \in DOMAIN best \cup {sk.Name} |->
                        IF n = sk.Name THEN sk ELSE best[n]]
                ELSE best)

RECURSIVE foldBest(_, _)
foldBest(skills, best) ==
  IF skills = <<>> THEN best
  ELSE LET sk == Head(skills) IN
       foldBest(Tail(skills),
                IF sk.Name \notin DOMAIN best \/ Priority(sk) > Priority(best[sk.Name])
                THEN [n \in DOMAIN best \cup {sk.Name} |->
                        IF n = sk.Name THEN sk ELSE best[n]]
                ELSE best)

\* the resolved skills in load order, not sorted
GetResolvedLoadOrder(fs, root) ==
  LET all == GetAll(fs, root)
      best == foldBest(all, [n \in {} |-> <<>>])
  IN SelectSeq(all, LAMBDA sk : best[sk.Name] = sk)

\* GetResolved: highest priority per name, sorted by name
GetResolved(fs, root) ==
  LET best == foldBest(GetAll(fs, root), [n \in {} |-> <<>>])
      names == SortedNames(DOMAIN best)
  IN [i \in 1..Len(names) |-> best[names[i]]]

RECURSIVE firstNamed(_, _)
firstNamed(skills, name) ==
  IF skills = <<>> THEN <<>>
  ELSE IF Head(skills).Name = name THEN <<Head(skills)>>
  ELSE firstNamed(Tail(skills), name)

FindInScope(fs, root, name, scope) == firstNamed(GetByScope(fs, root, scope), name)

\* Store.Remove
StoreRemove(fs, sk, F) == RemoveAll(fs, sk.Path, <<"remove", "store">> \in F)

\* ----------------------------------------------------------------- Target
\* An injected I/O failure is a pair <<operation, place>>; F is the set of
\* failures in force during one command.
\* Failures are injected at one target ("codex") and at the store; both
\* iteration orders of the targets are explored, so the failing target is
\* met first in some runs and last in others.
FaultOps == {"remove", "symlink", "copy", "rename"}
Faults == ((FaultOps \cup {"readdir"}) \X {"codex"}) \cup {<<"remove", "store">>}

\* GetSkillsPath: err iff Project scope without a project root
GetSkillsPath(t, scope, root) ==
  IF scope = ScopeGlobal THEN [err |-> FALSE, t |-> t, scope |-> scope]
  ELSE IF ~root THEN [err |-> TRUE, t |-> t, scope |-> scope]
  ELSE [err |-> FALSE, t |-> t, scope |-> scope]

\* a faulty variant of GetInstalledPath: the Global path is tried first
GetInstalledPathGlobalFirst(fs, t, skillName, root) ==
  IF ~GetSkillsPath(t, ScopeGlobal, root).err
     /\ Exists(fs, TargetPath(t, ScopeGlobal, skillName))
  THEN TargetPath(t, ScopeGlobal, skillName)
  ELSE IF ~GetSkillsPath(t, ScopeProject, root).err
          /\ Exists(fs, TargetPath(t, ScopeProject, skillName))
  THEN TargetPath(t, ScopeProject, skillName)
  ELSE <<>>

\* GetInstalledPath: Project path first, then Global path, else <<>>
GetInstalledPath(fs, t, skillName, root) ==
  IF ~GetSkillsPath(t, ScopeProject, root).err
     /\ Exists(fs, TargetPath(t, ScopeProject, skillName))
  THEN TargetPath(t, ScopeProject, skillName)
  ELSE IF ~GetSkillsPath(t, ScopeGlobal, root).err
          /\ Exists(fs, TargetPath(t, ScopeGlobal, skillName))
  THEN TargetPath(t, ScopeGlobal, skillName)
  ELSE <<>>

IsInstalled(fs, t, skillName, root) == GetInstalledPath(fs, t, skillName, root) # <<>>

IsInstalledInScope(fs, t, skillName, scope, root) ==
  /\ ~GetSkillsPath(t, scope, root).err
  /\ Exists(fs, TargetPath(t, scope, skillName))

\* a faulty variant of linkOrCopy: no link is tried, the skill is copied
linkOrCopyCopiesOnly(fs, t, s, destPath, F) ==
  CopyDir(fs, s.Path, destPath, <<"copy", t>> \in F)

\* a faulty variant of linkOrCopy: a failed link is the error of the call
linkNoFallback(fs, t, s, destPath, F) ==
  Symlink(fs, s.Path, destPath, <<"symlink", t>> \in F)

\* the symlink attempt with its silent fallback to a recursive copy
linkOrCopy(fs, t, s, destPath, F) ==
  LET l == Symlink(fs, s.Path, destPath, <<"symlink", t>> \in F) IN
  IF ~l.err THEN l ELSE CopyDir(fs, s.Path, destPath, <<"copy", t>> \in F)

\* a faulty variant of Install: it reports success and creates nothing
InstallCreatesNothing(fs, t, s, opts, root, F) == [fs |-> fs, err |-> FALSE]

\* a faulty variant of Install: with Force it installs over the existing
\* entry without removing it first
InstallKeepsExisting(fs, t, s, opts, root, F) ==
  LET destPath == TargetPath(t, s.Scope, s.Name) IN
  IF GetSkillsPath(t, s.Scope, root).err THEN [fs |-> fs, err |-> TRUE]
  ELSE IF Exists(fs, destPath) /\ ~opts.Force THEN [fs |-> fs, err |-> TRUE]
  ELSE CASE opts.Strategy = StrategySymlink -> linkOrCopy(fs, t, s, destPath, F)
         [] opts.Strategy = StrategyCopy ->
              CopyDir(fs, s.Path, destPath, <<"copy", t>> \in F)
         [] OTHER -> linkOrCopy(fs, t, s, destPath, F)

\* a faulty variant of Install: whatever lies at the destination, seen
\* without following links, is removed first, with or without Force
InstallReplacesAnything(fs, t, s, opts, root, F) ==
  LET destPath == TargetPath(t, s.Scope, s.Name)
      held == Lstat(fs, destPath).kind # "none"
      rm == RemoveAll(fs, destPath, <<"remove", t>> \in F)
      fs1 == IF held THEN rm.fs ELSE fs
  IN
  IF GetSkillsPath(t, s.Scope, root).err THEN [fs |-> fs, err |-> TRUE]
  ELSE IF held /\ rm.err THEN [fs |-> fs, err |-> TRUE]
  ELSE CASE opts.Strategy = StrategySymlink -> linkOrCopy(fs1, t, s, destPath, F)
         [] opts.Strategy = StrategyCopy ->
              CopyDir(fs1, s.Path, destPath, <<"copy", t>> \in F)
         [] OTHER -> linkOrCopy(fs1, t, s, destPath, F)

\* Target.Install: opts = [Strategy, Force]; returns [fs, err]
Install(fs, t, s, opts, root, F) ==
  LET destPath == TargetPath(t, s.Scope, s.Name)
      rm == RemoveAll(fs, destPath, <<"remove", t>> \in F)
      fs1 == IF Exists(fs, destPath) THEN rm.fs ELSE fs
  IN
  IF GetSkillsPath(t, s.Scope, root).err THEN [fs |-> fs, err |-> TRUE]
  ELSE IF Exists(fs, destPath) /\ ~opts.Force THEN [fs |-> fs, err |-> TRUE]
  ELSE IF Exists(fs, destPath) /\ rm.err THEN [fs |-> fs, err |-> TRUE]
  ELSE CASE opts.Strategy = StrategySymlink -> linkOrCopy(fs1, t, s, destPath, F)
         [] opts.Strategy = StrategyCopy ->
              CopyDir(fs1, s.Path, destPath, <<"copy", t>> \in F)
         [] OTHER -> linkOrCopy(fs1, t, s, destPath, F)

\* a faulty variant of Uninstall: it reports success and removes nothing
UninstallRemovesNothing(fs, t, skillName, root, F) == [fs |-> fs, err |-> FALSE]

\* Target.Uninstall: removes the one path GetInstalledPath resolves
Uninstall(fs, t, skillName, root, F) ==
  LET path == GetInstalledPath(fs, t, skillName, root) IN
  IF path = <<>> THEN [fs |-> fs, err |-> TRUE]
  ELSE RemoveAll(fs, path, <<"remove", t>> \in F)

\* ListInstalled: names of directories and links under both skills paths;
\* returns [names, err], err when a ReadDir fails
ListInstalled(fs, t, root, F) ==
  IF <<"readdir", t>> \in F THEN [names |-> {}, err |-> TRUE]
  ELSE [names |-> {n \in TargetNames(fs) :
                     \/ Lstat(fs, TargetPath(t, ScopeGlobal, n)).kind # "none"
                     \/ /\ ~GetSkillsPath(t, ScopeProject, root).err
                        /\ Lstat(fs, TargetPath(t, ScopeProject, n)).kind # "none"},
        err |-> FALSE]

\* a faulty variant of ListMigratable: the entry type is read through links
ListMigratableThroughLinks(fs, t, scope, root) ==
  IF GetSkillsPath(t, scope, root).err THEN <<>>
  ELSE SortedNames({n \in TargetNames(fs) :
         /\ Stat(fs, TargetPath(t, scope, n)).kind = "dir"
         /\ ValidateName(n)
         /\ isValidSkillDir(fs, TargetPath(t, scope, n))})

\* ListMigratable: plain directories with a safe name that hold a SKILL.md
ListMigratable(fs, t, scope, root) ==
  IF GetSkillsPath(t, scope, root).err THEN <<>>
  ELSE SortedNames({n \in TargetNames(fs) :
         /\ Lstat(fs, TargetPath(t, scope, n)).kind = "dir"
         /\ ValidateName(n)
         /\ isValidSkillDir(fs, TargetPath(t, scope, n))})

\* ------------------------------------------------------------ SyncService
\* cfg = [enabled, strategy, root]; opts = [DryRun, Force, Scope] where
\* Scope is a scope or NoScope (the nil pointer: every scope)
NoScope == -1

RECURSIVE filterSkillsByScope(_, _)
filterSkillsByScope(skills, scope) ==
  IF skills = <<>> THEN <<>>
  ELSE (IF Head(skills).Scope = scope THEN <<Head(skills)>> ELSE <<>>)
         \o filterSkillsByScope(Tail(skills), scope)

SyncResult(sk, t, action, err) ==
  [SkillName |-> sk.Name, Target |-> t, Action |-> action, Error |-> err]

\* ---- faulty variants of syncSkill, used to test what the properties detect
\* without the skip branch: an installed entry is always re-installed
syncSkillNeverSkips(fs, t, sk, isInstalled, cfg, opts, F) ==
  LET action == IF isInstalled THEN SyncActionUpdate ELSE SyncActionInstall
      strategy == IF cfg.strategy = "" THEN StrategySymlink ELSE cfg.strategy
      inst == Install(fs, t, sk,
                      [Strategy |-> strategy, Force |-> opts.Force \/ isInstalled],
                      cfg.root, F)
  IN
  IF opts.DryRun
  THEN [fs |-> fs, result |-> SyncResult(sk, t, action, FALSE)]
  ELSE IF inst.err
  THEN [fs |-> inst.fs, result |-> SyncResult(sk, t, SyncActionError, TRUE)]
  ELSE [fs |-> inst.fs, result |-> SyncResult(sk, t, action, FALSE)]

\* without the dry-run branch: a dry run installs like a live run
syncSkillIgnoresDryRun(fs, t, sk, isInstalled, cfg, opts, F) ==
  LET action == IF isInstalled THEN SyncActionUpdate ELSE SyncActionInstall
      strategy == IF cfg.strategy = "" THEN StrategySymlink ELSE cfg.strategy
      inst == Install(fs, t, sk,
                      [Strategy |-> strategy, Force |-> opts.Force \/ isInstalled],
                      cfg.root, F)
  IN
  IF isInstalled /\ ~opts.Force
  THEN [fs |-> fs, result |-> SyncResult(sk, t, SyncActionSkip, FALSE)]
  ELSE IF inst.err
  THEN [fs |-> inst.fs, result |-> SyncResult(sk, t, SyncActionError, TRUE)]
  ELSE [fs |-> inst.fs, result |-> SyncResult(sk, t, action, FALSE)]

\* the dry-run branch taken before the skip branch: a dry run never says Skip
syncSkillDryRunFirst(fs, t, sk, isInstalled, cfg, opts, F) ==
  LET action == IF isInstalled THEN SyncActionUpdate ELSE SyncActionInstall
      strategy == IF cfg.strategy = "" THEN StrategySymlink ELSE cfg.strategy
      inst == Install(fs, t, sk,
                      [Strategy |-> strategy, Force |-> opts.Force \/ isInstalled],
                      cfg.root, F)
  IN
  IF opts.DryRun
  THEN [fs |-> fs, result |-> SyncResult(sk, t, action, FALSE)]
  ELSE IF isInstalled /\ ~opts.Force
  THEN [fs |-> fs, result |-> SyncResult(sk, t, SyncActionSkip, FALSE)]
  ELSE IF inst.err
  THEN [fs |-> inst.fs, result |-> SyncResult(sk, t, SyncActionError, TRUE)]
  ELSE [fs |-> inst.fs, result |-> SyncResult(sk, t, action, FALSE)]

\* without the Update action: a replaced entry is reported as Install
syncSkillNoUpdate(fs, t, sk, isInstalled, cfg, opts, F) ==
  LET strategy == IF cfg.strategy = "" THEN StrategySymlink ELSE cfg.strategy
      inst == Install(fs, t, sk,
                      [Strategy |-> strategy, Force |-> opts.Force \/ isInstalled],
                      cfg.root, F)
  IN
  IF isInstalled /\ ~opts.Force
  THEN [fs |-> fs, result |-> SyncResult(sk, t, SyncActionSkip, FALSE)]
  ELSE IF opts.DryRun
  THEN [fs |-> fs, result |-> SyncResult(sk, t, SyncActionInstall, FALSE)]
  ELSE IF inst.err
  THEN [fs |-> inst.fs, result |-> SyncResult(sk, t, SyncActionError, TRUE)]
  ELSE [fs |-> inst.fs, result |-> SyncResult(sk, t, SyncActionInstall, FALSE)]

\* syncSkill: returns [fs, result]
syncSkill(fs, t, sk, isInstalled, cfg, opts, F) ==
  LET action == IF isInstalled THEN SyncActionUpdate ELSE SyncActionInstall
      strategy == IF cfg.strategy = "" THEN StrategySymlink ELSE cfg.strategy
      inst == Install(fs, t, sk,
                      [Strategy |-> strategy, Force |-> opts.Force \/ isInstalled],
                      cfg.root, F)
  IN
  IF isInstalled /\ ~opts.Force
  THEN [fs |-> fs, result |-> SyncResult(sk, t, SyncActionSkip, FALSE)]
  ELSE IF opts.DryRun
  THEN [fs |-> fs, result |-> SyncResult(sk, t, action, FALSE)]
  ELSE IF inst.err
  THEN [fs |-> inst.fs, result |-> SyncResult(sk, t, SyncActionError, TRUE)]
  ELSE [fs |-> inst.fs, result |-> SyncResult(sk, t, action, FALSE)]

\* the (target, skill) pairs in processing order
RECURSIVE pairsOf(_, _)
pairsOf(targets, skills) ==
  IF targets = <<>> THEN <<>>
  ELSE [i \in 1..Len(skills) |-> <<Head(targets), skills[i]>>]
         \o pairsOf(Tail(targets), skills)

\* a faulty variant of the loop of Sync: the first Error ends the batch
RECURSIVE syncPairsStopAtError(_, _, _, _, _)
syncPairsStopAtError(fs, pairs, cfg, opts, F) ==
  IF pairs = <<>> THEN [fs |-> fs, results |-> <<>>]
  ELSE LET t == Head(pairs)[1]
           sk == Head(pairs)[2]
           isInstalled == IsInstalledInScope(fs, t, sk.Name, sk.Scope, cfg.root)
           r == syncSkill(fs, t, sk, isInstalled, cfg, opts, F)
           rest == IF r.result.Action = SyncActionError
                   THEN [fs |-> r.fs, results |-> <<>>]
                   ELSE syncPairsStopAtError(r.fs, Tail(pairs), cfg, opts, F)
       IN [fs |-> rest.fs, results |-> <<r.result>> \o rest.results]

RECURSIVE syncPairs(_, _, _, _, _)
syncPairs(fs, pairs, cfg, opts, F) ==
  IF pairs = <<>> THEN [fs |-> fs, results |-> <<>>]
  ELSE LET t == Head(pairs)[1]
           sk == Head(pairs)[2]
           isInstalled == IsInstalledInScope(fs, t, sk.Name, sk.Scope, cfg.root)
           r == syncSkill(fs, t, sk, isInstalled, cfg, opts, F)
           rest == syncPairs(r.fs, Tail(pairs), cfg, opts, F)
       IN [fs |-> rest.fs, results |-> <<r.result>> \o rest.results]

\* TargetRegistry.GetAll: the enabled targets, in the order the map yields
Orders(S) == {o \in [1..Cardinality(S) -> S] : \A i, j \in DOMAIN o : i # j => o[i] # o[j]}

\* a faulty variant of Sync: a live run also clears, at the targets, the
\* entries whose name is not in the resolved set
SyncPrunesExtras(fs, cfg, opts, targets, F) ==
  LET resolved == GetResolved(fs, cfg.root)
      skills == IF opts.Scope # NoScope
                THEN filterSkillsByScope(resolved, opts.Scope) ELSE resolved
      r == syncPairs(fs, pairsOf(targets, skills), cfg, opts, F)
      pruned == [k \in DOMAIN r.fs.tgt |->
                   IF k[3] \in {resolved[i].Name : i \in DOMAIN resolved}
                   THEN r.fs.tgt[k] ELSE NoEntry]
  IN IF opts.DryRun THEN r
     ELSE [fs |-> [store |-> r.fs.store, tgt |-> pruned], results |-> r.results]

\* a faulty variant of Sync: the scope filter is applied to the loaded
\* skills before the priority resolution
SyncFiltersFirst(fs, cfg, opts, targets, F) ==
  LET all == GetAll(fs, cfg.root)
      kept == IF opts.Scope # NoScope
              THEN filterSkillsByScope(all, opts.Scope) ELSE all
      best == foldBest(kept, [n \in {} |-> <<>>])
      names == SortedNames(DOMAIN best)
      skills == [i \in 1..Len(names) |-> best[names[i]]]
  IN syncPairs(fs, pairsOf(targets, skills), cfg, opts, F)

\* SyncService.Sync: returns [fs, results]; targets is the iteration order
Sync(fs, cfg, opts, targets, F) ==
  LET resolved == GetResolved(fs, cfg.root)
      skills == IF opts.Scope # NoScope
                THEN filterSkillsByScope(resolved, opts.Scope) ELSE resolved
  IN syncPairs(fs, pairsOf(targets, skills), cfg, opts, F)

\* ---------------------------------------------------------- StatusService
RECURSIVE namesOf(_)
namesOf(skills) ==
  IF skills = <<>> THEN {} ELSE {Head(skills).Name} \cup namesOf(Tail(skills))

RECURSIVE selectNames(_, _, _, _, _)
selectNames(fs, t, skills, root, want) ==
  IF skills = <<>> THEN <<>>
  ELSE (IF IsInstalledInScope(fs, t, Head(skills).Name, Head(skills).Scope, root) = want
        THEN <<Head(skills).Name>> ELSE <<>>)
         \o selectNames(fs, t, Tail(skills), root, want)

\* a faulty variant of statusOf: every listed name is reported as Extra
statusOfExtraIsAll(fs, t, skills, root, F) ==
  LET installed == ListInstalled(fs, t, root, F)
      installedList == selectNames(fs, t, skills, root, TRUE)
      missingList == selectNames(fs, t, skills, root, FALSE)
      extraList == installed.names
  IN IF installed.err
     THEN [Target |-> t, Installed |-> <<>>, Missing |-> <<>>, Extra |-> {},
           InSync |-> FALSE, Error |-> TRUE]
     ELSE [Target |-> t, Installed |-> installedList, Missing |-> missingList,
           Extra |-> extraList,
           InSync |-> (Len(missingList) = 0 /\ Cardinality(extraList) = 0),
           Error |-> FALSE]

\* one StatusResult; when ListInstalled fails it carries only the error
statusOf(fs, t, skills, root, F) ==
  LET installed == ListInstalled(fs, t, root, F)
      installedList == selectNames(fs, t, skills, root, TRUE)
      missingList == selectNames(fs, t, skills, root, FALSE)
      extraList == installed.names \ namesOf(skills)
  IN IF installed.err
     THEN [Target |-> t, Installed |-> <<>>, Missing |-> <<>>, Extra |-> {},
           InSync |-> FALSE, Error |-> TRUE]
     ELSE [Target |-> t, Installed |-> installedList, Missing |-> missingList,
           Extra |-> extraList,
           InSync |-> (Len(missingList) = 0 /\ Cardinality(extraList) = 0),
           Error |-> FALSE]

\* StatusService.GetStatus: one StatusResult per registered target
GetStatus(fs, cfg, scope, targets, F) ==
  LET resolved == GetResolved(fs, cfg.root)
      skills == IF scope # NoScope THEN filterSkillsByScope(resolved, scope)
                ELSE resolved
  IN [i \in 1..Len(targets) |-> statusOf(fs, targets[i], skills, cfg.root, F)]

\* ---------------------------------------------------------- RemoveService
RemoveResult(name, scope, storeRemoved, targetResults, err) ==
  [SkillName |-> name, Scope |-> scope, StoreRemoved |-> storeRemoved,
   TargetResults |-> targetResults, Error |-> err]

\* a faulty variant of the lookup: the requested scope is ignored
removeLookupAnyScope(fs, cfg, opts) ==
  IF ~ValidateName(opts.Name) THEN <<>>
  ELSE GetByName(fs, cfg.root, opts.Name)

\* the lookup shared by every Remove: <<skill>> or <<>>
removeLookup(fs, cfg, opts) ==
  IF ~ValidateName(opts.Name) THEN <<>>
  ELSE IF opts.Scope # NoScope THEN FindInScope(fs, cfg.root, opts.Name, opts.Scope)
  ELSE GetByName(fs, cfg.root, opts.Name)

\* the loop over the targets: IsInstalled, then Uninstall;
\* returns [fs, results, trace]
RECURSIVE uninstallAll(_, _, _, _, _)
uninstallAll(fs, targets, name, root, F) ==
  IF targets = <<>> THEN [fs |-> fs, results |-> <<>>, trace |-> <<>>]
  ELSE LET t == Head(targets)
           inst == IsInstalled(fs, t, name, root)
           u == Uninstall(fs, t, name, root, F)
           fs1 == IF inst THEN u.fs ELSE fs
           rest == uninstallAll(fs1, Tail(targets), name, root, F)
       IN [fs |-> rest.fs,
           results |-> <<[Target |-> t, Removed |-> (inst /\ ~u.err),
                          Error |-> (inst /\ u.err)]>> \o rest.results,
           trace |-> (IF inst THEN <<<<"uninstall", t>>>> ELSE <<>>) \o rest.trace]

\* RemoveService.Remove: targets first, then the store;
\* returns [fs, result, trace] (trace: the order of the filesystem removals)
Remove(fs, cfg, opts, targets, F) ==
  LET found == removeLookup(fs, cfg, opts)
      sk == found[1]
      un == uninstallAll(fs, targets, sk.Name, cfg.root, F)
      rm == StoreRemove(un.fs, sk, F)
  IN
  IF found = <<>>
  THEN [fs |-> fs, trace |-> <<>>,
        result |-> RemoveResult(opts.Name, opts.Scope, FALSE, <<>>, TRUE)]
  ELSE IF rm.err
  THEN [fs |-> rm.fs, trace |-> un.trace \o <<<<"store", "store">>>>,
        result |-> RemoveResult(sk.Name, sk.Scope, FALSE, <<>>, TRUE)]
  ELSE [fs |-> rm.fs, trace |-> un.trace \o <<<<"store", "store">>>>,
        result |-> RemoveResult(sk.Name, sk.Scope, TRUE, un.results, FALSE)]

\* Orchestrator.Remove (and, line for line, SkillService.Remove): the store
\* first, then the targets
OrchestratorRemove(fs, cfg, opts, targets, F) ==
  LET found == removeLookup(fs, cfg, opts)
      sk == found[1]
      rm == StoreRemove(fs, sk, F)
      un == uninstallAll(rm.fs, targets, sk.Name, cfg.root, F)
  IN
  IF found = <<>>
  THEN [fs |-> fs, trace |-> <<>>,
        result |-> RemoveResult(opts.Name, opts.Scope, FALSE, <<>>, TRUE)]
  ELSE IF rm.err
  THEN [fs |-> rm.fs, trace |-> <<<<"store", "store">>>>,
        result |-> RemoveResult(sk.Name, sk.Scope, FALSE, <<>>, TRUE)]
  ELSE [fs |-> un.fs, trace |-> <<<<"store", "store">>>> \o un.trace,
        result |-> RemoveResult(sk.Name, sk.Scope, TRUE, un.results, FALSE)]

\* --------------------------------------------------------- MigrateService
\* FindSkillsToMigrate: target -> names, only targets with something found
FindSkillsToMigrate(fs, cfg, scope, targets) ==
  LET hit == {t \in {targets[i] : i \in 1..Len(targets)} :
                Len(ListMigratable(fs, t, scope, cfg.root)) > 0}
  IN [t \in hit |-> ListMigratable(fs, t, scope, cfg.root)]

\* Config.GetAgentsDir: the project store when ProjectRoot is given
GetAgentsDir(projectRoot) == IF projectRoot THEN ScopeProject ELSE ScopeGlobal

MigrateMoveResult(name, t, action, err) ==
  [SkillName |-> name, FromTarget |-> t, Action |-> action, Error |-> err]

\* the (target, name) pairs of the discovery map, targets in map order
RECURSIVE movePairs(_, _)
movePairs(existingSkills, targets) ==
  IF targets = <<>> THEN <<>>
  ELSE [i \in 1..Len(existingSkills[Head(targets)]) |->
          <<Head(targets), existingSkills[Head(targets)][i]>>]
         \o movePairs(existingSkills, Tail(targets))

\* a faulty variant of the loop: a source whose name is taken at the
\* canonical destination is moved over the directory that lies there
RECURSIVE moveLoopOverwrites(_, _, _, _, _, _, _)
moveLoopOverwrites(fs, pairs, moved, agentsDir, opts, root, F) ==
  IF pairs = <<>> THEN [fs |-> fs, results |-> <<>>]
  ELSE
    LET t == Head(pairs)[1]
        skillName == Head(pairs)[2]
        srcPath == TargetPath(t, opts.Scope, skillName)
        dstPath == StorePath(agentsDir, CategoryDefault, skillName)
        rm == RemoveAll(fs, srcPath, <<"remove", t>> \in F)
        over == RemoveAll(Put(fs, dstPath, Lstat(fs, srcPath)), srcPath,
                          <<"remove", t>> \in F)
        mv == Rename(fs, srcPath, dstPath, <<"rename", t>> \in F)
        step ==
          IF GetSkillsPath(t, opts.Scope, root).err
          THEN [fs |-> fs, moved |-> moved, results |-> <<>>]
          ELSE IF skillName \in moved
          THEN [fs |-> rm.fs, moved |-> moved,
                results |-> <<MigrateMoveResult(skillName, t,
                     IF rm.err THEN MigrateActionError ELSE MigrateActionRemoved,
                     rm.err)>>]
          ELSE IF Exists(fs, dstPath)
          THEN [fs |-> over.fs, moved |-> moved,
                results |-> <<MigrateMoveResult(skillName, t,
                     IF over.err THEN MigrateActionError ELSE MigrateActionSkipped,
                     over.err)>>]
          ELSE IF mv.err
          THEN [fs |-> mv.fs, moved |-> moved,
                results |-> <<MigrateMoveResult(skillName, t, MigrateActionError, TRUE)>>]
          ELSE [fs |-> mv.fs, moved |-> moved \cup {skillName},
                results |-> <<MigrateMoveResult(skillName, t, MigrateActionMoved, FALSE)>>]
        rest == moveLoopOverwrites(step.fs, Tail(pairs), step.moved, agentsDir,
                                   opts, root, F)
    IN [fs |-> rest.fs, results |-> step.results \o rest.results]

\* a faulty variant of the loop: the first failed removal or rename ends it
RECURSIVE moveLoopStopsAtError(_, _, _, _, _, _, _)
moveLoopStopsAtError(fs, pairs, moved, agentsDir, opts, root, F) ==
  IF pairs = <<>> THEN [fs |-> fs, results |-> <<>>]
  ELSE
    LET t == Head(pairs)[1]
        skillName == Head(pairs)[2]
        srcPath == TargetPath(t, opts.Scope, skillName)
        dstPath == StorePath(agentsDir, CategoryDefault, skillName)
        rm == RemoveAll(fs, srcPath, <<"remove", t>> \in F)
        mv == Rename(fs, srcPath, dstPath, <<"rename", t>> \in F)
        step ==
          IF GetSkillsPath(t, opts.Scope, root).err
          THEN [fs |-> fs, moved |-> moved, results |-> <<>>]
          ELSE IF skillName \in moved
          THEN [fs |-> rm.fs, moved |-> moved,
                results |-> <<MigrateMoveResult(skillName, t,
                     IF rm.err THEN MigrateActionError ELSE MigrateActionRemoved,
                     rm.err)>>]
          ELSE IF Exists(fs, dstPath)
          THEN [fs |-> rm.fs, moved |-> moved,
                results |-> <<MigrateMoveResult(skillName, t,
                     IF rm.err THEN MigrateActionError ELSE MigrateActionSkipped,
                     rm.err)>>]
          ELSE IF mv.err
          THEN [fs |-> mv.fs, moved |-> moved,
                results |-> <<MigrateMoveResult(skillName, t, MigrateActionError, TRUE)>>]
          ELSE [fs |-> mv.fs, moved |-> moved \cup {skillName},
                results |-> <<MigrateMoveResult(skillName, t, MigrateActionMoved, FALSE)>>]
        rest == IF step.results # <<>> /\ step.results[1].Error
                THEN [fs |-> step.fs, results |-> <<>>]
                ELSE moveLoopStopsAtError(step.fs, Tail(pairs), step.moved,
                                          agentsDir, opts, root, F)
    IN [fs |-> rest.fs, results |-> step.results \o rest.results]

\* the loop body of moveSkillsToAgents; returns [fs, results]
RECURSIVE moveLoop(_, _, _, _, _, _, _)
moveLoop(fs, pairs, moved, agentsDir, opts, root, F) ==
  IF pairs = <<>> THEN [fs |-> fs, results |-> <<>>]
  ELSE
    LET t == Head(pairs)[1]
        skillName == Head(pairs)[2]
        srcPath == TargetPath(t, opts.Scope, skillName)
        dstPath == StorePath(agentsDir, CategoryDefault, skillName)
        rm == RemoveAll(fs, srcPath, <<"remove", t>> \in F)
        mv == Rename(fs, srcPath, dstPath, <<"rename", t>> \in F)
        step ==
          IF GetSkillsPath(t, opts.Scope, root).err
          THEN [fs |-> fs, moved |-> moved, results |-> <<>>]
          ELSE IF skillName \in moved
          THEN [fs |-> rm.fs, moved |-> moved,
                results |-> <<MigrateMoveResult(skillName, t,
                     IF rm.err THEN MigrateActionError ELSE MigrateActionRemoved,
                     rm.err)>>]
          ELSE IF Exists(fs, dstPath)
          THEN [fs |-> rm.fs, moved |-> moved,
                results |-> <<MigrateMoveResult(skillName, t,
                     IF rm.err THEN MigrateActionError ELSE MigrateActionSkipped,
                     rm.err)>>]
          ELSE IF mv.err
          THEN [fs |-> mv.fs, moved |-> moved,
                results |-> <<MigrateMoveResult(skillName, t, MigrateActionError, TRUE)>>]
          ELSE [fs |-> mv.fs, moved |-> moved \cup {skillName},
                results |-> <<MigrateMoveResult(skillName, t, MigrateActionMoved, FALSE)>>]
        rest == moveLoop(step.fs, Tail(pairs), step.moved, agentsDir, opts, root, F)
    IN [fs |-> rest.fs, results |-> step.results \o rest.results]

\* moveSkillsToAgents: mapOrder is the iteration order of the discovery map
moveSkillsToAgents(fs, agentsDir, existingSkills, mapOrder, opts, root, F) ==
  moveLoop(fs, movePairs(existingSkills, mapOrder), {}, agentsDir, opts, root, F)

\* MigrateService.Migrate: move, then Sync with Force;
\* opts = [Scope, ProjectRoot]; returns [fs, result] and, as `moved`, the
\* filesystem between the move step and the Sync
Migrate(fs, cfg, opts, existingSkills, mapOrder, targets, F) ==
  LET mv == moveSkillsToAgents(fs, GetAgentsDir(opts.ProjectRoot), existingSkills,
                               mapOrder, opts, cfg.root, F)
      sy == Sync(mv.fs, cfg, [DryRun |-> FALSE, Force |-> TRUE, Scope |-> NoScope],
                 targets, F)
  IN [fs |-> sy.fs, moved |-> mv.fs,
      result |-> [Found |-> existingSkills, MoveResults |-> mv.results,
                  SyncResults |-> sy.results]]

\* ============================================================ state machine
\* Every command is one process run over the filesystem it finds. The state
\* is the filesystem and the configuration; `last` holds what the running
\* command was given and what it returned, until the process exits.
VARIABLES
  store,        \* StoreKeys -> entry: the canonical skill directories
  tgt,          \* TargetKeys -> entry: what lies under the targets' skills paths
  enabled,      \* cfg.Targets[name].Enabled
  strategy,     \* cfg.DefaultStrategy
  projectRoot,  \* whether a project root is known (projectRoot # "")
  last          \* the command that ran last: its options and what it returned

vars == <<store, tgt, enabled, strategy, projectRoot, last>>

FS == [store |-> store, tgt |-> tgt]

Cfg(root) == [enabled |-> enabled, strategy |-> strategy, root |-> root]

\* the failures that can touch a command: those of the primitives it calls
FaultSets(ops) ==
  {F \in SUBSET {f \in Faults : f[1] \in ops} : Cardinality(F) <= MaxFaults}

ScopeOpts == Scopes \cup {NoScope}

\* the configurations explored: every strategy, one disabled target, and a
\* working directory outside any project
Configs ==
  {<<defaultTargets, StrategySymlink, TRUE>>, <<defaultTargets, StrategyCopy, TRUE>>,
   <<{"claude"}, "", TRUE>>, <<defaultTargets, StrategySymlink, FALSE>>}

\* a skill directory of the store, with a well-formed manifest
StoreDir(k) == DirEntry(0, TRUE, <<"store", k[1], k[2]>>)

\* a directory put into a target's skills path by hand
UnmanagedDir(k, fm) == DirEntry(0, fm, <<"target", k[1], k[2]>>)

\* what Install leaves at a target for the default skill of the entry's
\* scope: a link to the canonical directory, or a copy of it
ManagedLink(k) == LinkEntry(StorePath(k[2], CategoryDefault, k[3]))
ManagedCopy(k) == StoreDir(<<k[2], CategoryDefault, k[3]>>)

\* the stores with at most MaxStored skill directories
InitStores ==
  {[k \in StoreKeys |-> IF k \in K THEN StoreDir(k) ELSE NoEntry] :
     K \in {K \in SUBSET StoreKeys : Cardinality(K) <= MaxStored}}

\* the targets with at most MaxPreexisting entries, each an unmanaged
\* directory or a link left by an earlier run
InitTargets ==
  {[k \in TargetKeys |-> IF k \in K THEN (IF k \in D THEN UnmanagedDir(k, TRUE)
                                          ELSE ManagedLink(k))
                         ELSE NoEntry] :
     K \in {K \in SUBSET TargetKeys : Cardinality(K) <= MaxPreexisting},
     D \in SUBSET TargetKeys}

InitConfig ==
  \E c \in Configs : enabled = c[1] /\ strategy = c[2] /\ projectRoot = c[3]

NoCommand == [op |-> "none"]

Init ==
  /\ store \in InitStores
  /\ tgt \in InitTargets
  /\ InitConfig
  /\ last = NoCommand

\* ---- the commands
\* whether some registered target holds an entry outside the resolved set
extraBefore(fs, root) ==
  \E t \in enabled :
    ListInstalled(fs, t, root, {}).names \ namesOf(GetResolved(fs, root)) # {}

\* skillet sync
DoSync ==
  \E dry \in BOOLEAN, force \in BOOLEAN, scope \in ScopeOpts,
     targets \in Orders(enabled), F \in FaultSets({"remove", "symlink", "copy"}) :
    LET opts == [DryRun |-> dry, Force |-> force, Scope |-> scope] IN
    /\ last = NoCommand
    /\ (dry => F = {})
    /\ \E r \in {Sync(FS, Cfg(projectRoot), opts, targets, F)} :
         /\ store' = r.fs.store
         /\ tgt' = r.fs.tgt
         /\ last' = [op |-> "sync", opts |-> opts, targets |-> targets,
                     faults |-> F, results |-> r.results,
                     before |-> FS, extraBefore |-> extraBefore(FS, projectRoot)]
    /\ UNCHANGED <<enabled, strategy, projectRoot>>

\* a faulty variant of the status command: it clears the entries it
\* reports as Extra
DoStatusClearsExtras ==
  \E scope \in ScopeOpts, targets \in Orders(enabled),
     F \in FaultSets({"readdir"}) :
    \E st \in {GetStatus(FS, Cfg(projectRoot), scope, targets, F)} :
      /\ last = NoCommand
      /\ last' = [op |-> "status", scope |-> scope, before |-> FS, statuses |-> st]
      /\ tgt' = [k \in DOMAIN tgt |->
                   IF \E i \in DOMAIN st : st[i].Target = k[1] /\ k[3] \in st[i].Extra
                   THEN NoEntry ELSE tgt[k]]
      /\ UNCHANGED <<store, enabled, strategy, projectRoot>>

\* skillet status
DoStatus ==
  \E scope \in ScopeOpts, targets \in Orders(enabled),
     F \in FaultSets({"readdir"}) :
    /\ last = NoCommand
    /\ last' = [op |-> "status", scope |-> scope, before |-> FS,
                statuses |-> GetStatus(FS, Cfg(projectRoot), scope, targets, F)]
    /\ UNCHANGED <<store, tgt, enabled, strategy, projectRoot>>

\* the process exits; what it printed is no longer at hand
Exit ==
  /\ last # NoCommand
  /\ last' = NoCommand
  /\ UNCHANGED <<store, tgt, enabled, strategy, projectRoot>>

Next ==
  \/ DoSync
  \/ DoStatus
  \/ Exit

Spec == Init /\ [][Next]_vars

\* ---- remove, over targets that hold what Install left there
\* the entry Install makes under the configured strategy
Managed(k) == IF strategy = StrategyCopy THEN ManagedCopy(k) ELSE ManagedLink(k)

InstalledTargets ==
  {[k \in TargetKeys |-> IF k \in K THEN Managed(k) ELSE NoEntry] :
     K \in SUBSET TargetKeys}

InitRemove ==
  /\ store \in InitStores
  /\ InitConfig
  /\ tgt \in InstalledTargets
  /\ last = NoCommand

RemoveStep(op, opts, r) ==
  /\ store' = r.fs.store
  /\ tgt' = r.fs.tgt
  /\ last' = [op |-> op, opts |-> opts, result |-> r.result, trace |-> r.trace,
              before |-> FS]
  /\ UNCHANGED <<enabled, strategy, projectRoot>>

\* skillet remove (internal/usecase)
DoRemove ==
  \E n \in AllNames, scope \in ScopeOpts, targets \in Orders(enabled),
     F \in FaultSets({"remove"}) :
    LET opts == [Name |-> n, Scope |-> scope] IN
    /\ last = NoCommand
    /\ \E r \in {Remove(FS, Cfg(projectRoot), opts, targets, F)} :
         RemoveStep("remove", opts, r)

\* the remove of internal/orchestrator and internal/service
DoOrchestratorRemove ==
  \E n \in AllNames, scope \in ScopeOpts, targets \in Orders(enabled),
     F \in FaultSets({"remove"}) :
    LET opts == [Name |-> n, Scope |-> scope] IN
    /\ last = NoCommand
    /\ \E r \in {OrchestratorRemove(FS, Cfg(projectRoot), opts, targets, F)} :
         RemoveStep("orchestratorRemove", opts, r)

NextRemove ==
  \/ DoRemove
  \/ DoOrchestratorRemove
  \/ Exit

RemoveSpec == InitRemove /\ [][NextRemove]_vars

\* ---- migrate, over targets that hold directories put there by hand
UnmanagedTargets ==
  {[k \in TargetKeys |-> IF k \in K THEN UnmanagedDir(k, k \notin B) ELSE NoEntry] :
     K \in {K \in SUBSET TargetKeys : Cardinality(K) <= MaxUnmanaged},
     B \in SUBSET TargetKeys}

\* migration moves into the default category only: the optional
\* directories of the store start empty here
InitMigrate ==
  /\ store \in {st \in InitStores :
                  \A k \in StoreKeys : k[2] = CategoryOptional => st[k] = NoEntry}
  /\ InitConfig
  /\ tgt \in UnmanagedTargets
  /\ last = NoCommand

\* skillet migrate: discovery, then Migrate with what was found; the project
\* root is passed on exactly when the Project scope is migrated
DoMigrate ==
  \E scope \in Scopes, targets \in Orders(enabled),
     F \in {F \in FaultSets(FaultOps) : <<"remove", "store">> \notin F} :
    LET root == (scope = ScopeProject)
        opts == [Scope |-> scope, ProjectRoot |-> root]
        found == FindSkillsToMigrate(FS, Cfg(root), scope, targets)
    IN \E mapOrder \in Orders(DOMAIN found) :
         /\ last = NoCommand
         /\ (scope = ScopeProject => projectRoot)
         /\ DOMAIN found # {}
         /\ \E r \in {Migrate(FS, Cfg(root), opts, found, mapOrder, targets, F)} :
              /\ store' = r.fs.store
              /\ tgt' = r.fs.tgt
              /\ last' = [op |-> "migrate", opts |-> opts, faults |-> F,
                          result |-> r.result, afterMove |-> r.moved,
                          before |-> FS]
         /\ UNCHANGED <<enabled, strategy, projectRoot>>

NextMigrate ==
  \/ DoMigrate
  \/ Exit

MigrateSpec == InitMigrate /\ [][NextMigrate]_vars

\* ---- the store's queries, status and sync over several names
\* names whose byte order differs from their load order: "B" < "a" < "ab"
CatalogNames == {NameA, NameAB, NameUpperB}
CatalogStoreKeys == Scopes \X Categories \X CatalogNames
CatalogTargetKeys == defaultTargets \X Scopes \X CatalogNames

InitCatalog ==
  /\ store \in {[k \in CatalogStoreKeys |-> IF k \in K THEN StoreDir(k) ELSE NoEntry] :
                  K \in {K \in SUBSET CatalogStoreKeys : Cardinality(K) <= MaxNamed}}
  /\ \E K \in {K \in SUBSET CatalogTargetKeys : Cardinality(K) <= MaxListed} :
       \E D \in SUBSET K :
         tgt = [k \in CatalogTargetKeys |->
                  IF k \in D THEN UnmanagedDir(k, TRUE)
                  ELSE IF k \in K THEN ManagedLink(k)
                  ELSE NoEntry]
  /\ enabled = defaultTargets
  /\ strategy = StrategySymlink
  /\ projectRoot \in BOOLEAN
  /\ last = NoCommand

\* skillet list: Store.GetAll
DoGetAll ==
  /\ last = NoCommand
  /\ last' = [op |-> "getAll", before |-> FS, skills |-> GetAll(FS, projectRoot)]
  /\ UNCHANGED <<store, tgt, enabled, strategy, projectRoot>>

\* Store.GetResolved
DoGetResolved ==
  /\ last = NoCommand
  /\ last' = [op |-> "getResolved", before |-> FS,
              skills |-> GetResolved(FS, projectRoot)]
  /\ UNCHANGED <<store, tgt, enabled, strategy, projectRoot>>

NextCatalog ==
  \/ DoGetAll
  \/ DoGetResolved
  \/ DoStatus
  \/ Exit

CatalogSpec == InitCatalog /\ [][NextCatalog]_vars

\* ---- sync over several names, inside a project, the store holding
\* default-category skills only
InitSyncNames ==
  /\ InitCatalog
  /\ projectRoot
  /\ \A k \in CatalogStoreKeys : k[2] = CategoryOptional => store[k] = NoEntry

NextSyncNames ==
  \/ DoSync
  \/ Exit

SyncNamesSpec == InitSyncNames /\ [][NextSyncNames]_vars

\* ---- single calls of a target's Install and Uninstall
\* what may lie at a target's path: a directory put there by hand, or a
\* link to a canonical directory of that name, of any scope and category
HeldEntries(k) ==
  {UnmanagedDir(k, TRUE)}
    \cup {LinkEntry(StorePath(sc, cat, k[3])) : sc \in Scopes, cat \in Categories}

HeldTargets ==
  UNION {[K -> UNION {HeldEntries(k) : k \in K}] :
           K \in {K \in SUBSET TargetKeys : Cardinality(K) <= MaxHeld}}

InitTarget ==
  /\ store \in InitStores
  /\ \E h \in HeldTargets :
       /\ \A k \in DOMAIN h : h[k] \in HeldEntries(k)
       /\ tgt = [k \in TargetKeys |-> IF k \in DOMAIN h THEN h[k] ELSE NoEntry]
  /\ InitConfig
  /\ last = NoCommand

\* Target.Install of a loaded skill at a registered target
DoInstall ==
  /\ last = NoCommand
  /\ \E t \in enabled, force \in BOOLEAN,
        F \in FaultSets({"remove", "symlink", "copy"}) :
       \E all \in {GetAll(FS, projectRoot)} :
         \E i \in DOMAIN all :
           LET opts == [Strategy |-> strategy, Force |-> force] IN
           \E r \in {Install(FS, t, all[i], opts, projectRoot, F)} :
             /\ store' = r.fs.store
             /\ tgt' = r.fs.tgt
             /\ last' = [op |-> "install", target |-> t, skill |-> all[i],
                         opts |-> opts, faults |-> F, err |-> r.err,
                         before |-> FS]
  /\ UNCHANGED <<enabled, strategy, projectRoot>>

\* Target.Uninstall of a name at a registered target
DoUninstall ==
  /\ last = NoCommand
  /\ \E t \in enabled, n \in ValidNames, F \in FaultSets({"remove"}) :
       \E r \in {Uninstall(FS, t, n, projectRoot, F)} :
         /\ store' = r.fs.store
         /\ tgt' = r.fs.tgt
         /\ last' = [op |-> "uninstall", target |-> t, name |-> n,
                     err |-> r.err, before |-> FS]
  /\ UNCHANGED <<enabled, strategy, projectRoot>>

NextTarget ==
  \/ DoInstall
  \/ DoUninstall
  \/ Exit

TargetSpec == InitTarget /\ [][NextTarget]_vars

\* ================================================================ properties
\* ---- helpers over the results of Sync
Range(f) == {f[i] : i \in DOMAIN f}

SyncFaultSets == FaultSets({"remove", "symlink", "copy"})

\* the (target, skill) pairs of a result list, and the action of each pair
PairsOf(results) == {<<r.Target, r.SkillName>> : r \in Range(results)}
ActionOf(results, pair) ==
  (CHOOSE r \in Range(results) : <<r.Target, r.SkillName>> = pair).Action

AllSkip(results) == \A r \in Range(results) : r.Action = SyncActionSkip
NoError(results) == \A r \in Range(results) : r.Action # SyncActionError

\* the scope of the resolved skill of that name
ResolvedScope(fs, root, name) ==
  (CHOOSE sk \in Range(GetResolved(fs, root)) : sk.Name = name).Scope

\* the pair of result r was absent from its target in filesystem fs
AbsentBefore(fs, r) ==
  ~IsInstalledInScope(fs, r.Target, r.SkillName,
                      ResolvedScope(fs, projectRoot, r.SkillName), projectRoot)

\* the Sync that just ran reported Install for each previously-absent pair
InstalledEachAbsent ==
  \A r \in Range(last.results) :
    AbsentBefore(last.before, r) => r.Action = SyncActionInstall

\* every Sync with the same options, started now, reports only Skip
SecondCallAllSkip ==
  \A targets \in Orders(enabled), F \in SyncFaultSets :
    LET second == Sync(FS, Cfg(projectRoot), last.opts, targets, F).results IN
    /\ PairsOf(second) = PairsOf(last.results)
    /\ AllSkip(second)

\* C1 (as stated): after a Sync without force that reported Install for each
\* previously-absent pair, a second Sync with the same options and no change
\* in between reports Skip for every pair.  Stated for every Sync, dry runs
\* included.
C1_SyncTwiceSkips ==
  (last.op = "sync" /\ ~last.opts.Force /\ InstalledEachAbsent)
    => SecondCallAllSkip

\* C1 (amended): the same for live calls: after a live Sync (DryRun = false)
\* without force that reported Install for each previously-absent pair, a
\* second Sync with the same options and no change in between reports Skip
\* for every pair.
C1_LiveSyncTwiceSkips ==
  (last.op = "sync" /\ ~last.opts.DryRun /\ ~last.opts.Force /\ InstalledEachAbsent)
    => SecondCallAllSkip

\* a live Sync without force has just installed a skill at two targets
C1_Witness ==
  /\ last.op = "sync" /\ ~last.opts.DryRun /\ ~last.opts.Force
  /\ InstalledEachAbsent
  /\ Cardinality(PairsOf(last.results)) = 2
  /\ \A r \in Range(last.results) : r.Action = SyncActionInstall

\* C2: a Sync with DryRun = true leaves every target entry as it was: nothing
\* is created, replaced or removed at any target, for any Force value and any
\* prior state.
C2_DryRunLeavesTargets ==
  (last.op = "sync" /\ last.opts.DryRun) => tgt = last.before.tgt

\* a forced dry run has reported an Install for one target and an Update for
\* the other
C2_Witness ==
  /\ last.op = "sync" /\ last.opts.DryRun /\ last.opts.Force
  /\ \E r \in Range(last.results) : r.Action = SyncActionInstall
  /\ \E r \in Range(last.results) : r.Action = SyncActionUpdate

\* the live Syncs that could have run in place of the dry run that just ran
LiveRuns(faultSets) ==
  {Sync(last.before, Cfg(projectRoot), [last.opts EXCEPT !.DryRun = FALSE],
        targets, F).results : targets \in Orders(enabled), F \in faultSets}

StatusInSync(scope) ==
  \A targets \in Orders(enabled) :
    LET st == GetStatus(FS, Cfg(projectRoot), scope, targets, {}) IN
    /\ {st[i].Target : i \in DOMAIN st} = enabled
    /\ \A i \in DOMAIN st :
         st[i].InSync /\ st[i].Missing = <<>> /\ st[i].Extra = {}

\* C4 (as stated): after a live Sync in which no pair reports Error, started
\* from targets that hold no entry outside the resolved set, GetStatus
\* reports InSync = true for every enabled target.  Stated for every scope
\* filter of the Sync and of the GetStatus.
C4_StatusInSyncAfterSync ==
  (last.op = "sync" /\ ~last.opts.DryRun /\ NoError(last.results)
     /\ ~last.extraBefore)
    => \A scope \in ScopeOpts : StatusInSync(scope)

\* C4 (amended): the same when neither the Sync nor the GetStatus is
\* filtered by scope.
C4_StatusInSyncAfterFullSync ==
  (last.op = "sync" /\ ~last.opts.DryRun /\ last.opts.Scope = NoScope
     /\ NoError(last.results) /\ ~last.extraBefore)
    => StatusInSync(NoScope)

\* an unfiltered live Sync has installed a skill at two targets that held
\* nothing outside the resolved set
C4_Witness ==
  /\ last.op = "sync" /\ ~last.opts.DryRun /\ last.opts.Scope = NoScope
  /\ NoError(last.results) /\ ~last.extraBefore
  /\ Cardinality(PairsOf(last.results)) = 2
  /\ \E r \in Range(last.results) : r.Action = SyncActionInstall

\* ---- helpers over the result of Remove
\* the skill the Remove that just ran looked up: <<skill>> or <<>>
RemovedSkill == removeLookup(last.before, Cfg(projectRoot), last.opts)

\* the Remove reported no error, neither for the store nor for a target
RemoveSucceeded ==
  /\ last.result.StoreRemoved /\ ~last.result.Error
  /\ \A tr \in Range(last.result.TargetResults) : ~tr.Error

InBothScopes(fs, t, name) ==
  /\ IsInstalledInScope(fs, t, name, ScopeGlobal, projectRoot)
  /\ IsInstalledInScope(fs, t, name, ScopeProject, projectRoot)

\* the canonical directory is gone and no enabled target that had the name
\* installed has it installed any more
Unwound(sk) ==
  /\ Lstat(FS, sk.Path).kind = "none"
  /\ \A t \in enabled :
       IsInstalled(last.before, t, sk.Name, projectRoot)
         => ~IsInstalled(FS, t, sk.Name, projectRoot)

C6_UninstallBeforeStoreRemove ==
  (last.op \in {"remove", "orchestratorRemove"}) =>
    \A i, j \in DOMAIN last.trace :
      i < j => ~(last.trace[i][1] = "store" /\ last.trace[j][1] = "uninstall")

\* C7: Remove never leaves a target pointing at a deleted canonical path: if
\* Uninstall failed at a target the canonical directory is still there, and
\* no enabled target holds a link for the name that pointed at a directory
\* before the Remove and points at nothing after it.
C7_RemoveLeavesNoDanglingEntry ==
  (last.op = "remove" /\ RemovedSkill # <<>>) =>
    /\ (\E tr \in Range(last.result.TargetResults) : tr.Error)
         => Lstat(FS, RemovedSkill[1].Path).kind = "dir"
    /\ \A t \in enabled, scope \in Scopes :
         LET e == Lstat(FS, TargetPath(t, scope, RemovedSkill[1].Name)) IN
         (e.kind = "link" /\ Lstat(last.before, e.to).kind = "dir")
           => Lstat(FS, e.to).kind = "dir"

\* ---- helpers over the result of Migrate
\* the (target, name) pairs the discovery returned
Discovered ==
  {d \in defaultTargets \X ValidNames :
     d[1] \in DOMAIN last.result.Found /\ d[2] \in Range(last.result.Found[d[1]])}

MigrateDst(name) ==
  StorePath(GetAgentsDir(last.opts.ProjectRoot), CategoryDefault, name)

NoMigrateError ==
  /\ \A r \in Range(last.result.MoveResults) : r.Action # MigrateActionError
  /\ NoError(last.result.SyncResults)

\* the entry of t under scope is a link to, or a copy of, that canonical
\* directory
ManagedEntry(fs, t, scope, dst) ==
  LET e == Lstat(fs, TargetPath(t, scope, dst[4])) IN
  /\ Lstat(fs, dst).kind = "dir"
  /\ \/ e = LinkEntry(dst)
     \/ (e.kind = "dir" /\ e = Lstat(fs, dst))

\* C8: given a name present as an unmanaged directory under two targets at
\* once (and not yet in the store), after a Migrate that reports no error
\* the canonical directory is the one of the target processed first, after
\* the move step neither target holds its source directory any more, and at
\* the end both targets hold a managed link (or the copy the strategy
\* makes) of the canonical directory.
C8_CollisionKeepsFirst ==
  (last.op = "migrate" /\ NoMigrateError) =>
    \A n \in ValidNames :
      (/\ \A t \in defaultTargets : <<t, n>> \in Discovered
       /\ Lstat(last.before, MigrateDst(n)).kind = "none")
      => /\ Lstat(FS, MigrateDst(n)) =
              Lstat(last.before,
                    TargetPath(last.result.MoveResults[1].FromTarget,
                               last.opts.Scope, n))
         /\ \A t \in defaultTargets :
              /\ Lstat(last.afterMove, TargetPath(t, last.opts.Scope, n)).kind = "none"
              /\ ManagedEntry(FS, t, last.opts.Scope, MigrateDst(n))

\* the names Migrate is to leave installed: those it moved and those the
\* store resolved before
NamesToInstall ==
  {r.SkillName : r \in {r \in Range(last.result.MoveResults) :
                          r.Action = MigrateActionMoved}}
    \cup {sk.Name : sk \in Range(GetResolved(last.before, last.opts.ProjectRoot))}

\* C9: after a Migrate that reports no error, every migrated skill and every
\* skill that was already in the store is resolved by the store and is
\* installed at every enabled target as a managed link or copy of its
\* canonical directory.
C9_MigratedInstalledEverywhere ==
  (last.op = "migrate" /\ NoMigrateError) =>
    \A n \in NamesToInstall :
      \E sk \in Range(GetResolved(FS, last.opts.ProjectRoot)) :
        /\ sk.Name = n
        /\ \A t \in enabled : ManagedEntry(FS, t, sk.Scope, sk.Path)

\* C10: migration loses no content: for every discovered (target, name),
\* after the move step either the source directory is still in the target
\* or the Store returns a skill of that name when loading.
C10_MigrationLosesNothing ==
  (last.op = "migrate") =>
    \A d \in Discovered :
      \/ Lstat(last.afterMove, TargetPath(d[1], last.opts.Scope, d[2])).kind = "dir"
      \/ \E sk \in Range(GetAll(last.afterMove, last.opts.ProjectRoot)) :
           sk.Name = d[2]

\* ---- helpers over the result of a store query
\* the skills the Store loaded for the query that just ran
Loaded == Range(GetAll(last.before, projectRoot))

\* C11: for every name carried by a loaded skill, GetResolved contains
\* exactly one skill of that name, it is a loaded skill of the highest scope
\* priority, and it is the Project skill whenever the name is loaded from
\* both scopes.
C11_ResolvedHighestPriority ==
  (last.op = "getResolved") =>
    LET res == last.skills IN
    /\ {res[i].Name : i \in DOMAIN res} = {sk.Name : sk \in Loaded}
    /\ \A i, j \in DOMAIN res : res[i].Name = res[j].Name => i = j
    /\ \A i \in DOMAIN res :
         /\ res[i] \in Loaded
         /\ \A sk \in Loaded :
              sk.Name = res[i].Name => Priority(res[i]) >= Priority(sk)
         /\ (\E sk \in Loaded : sk.Name = res[i].Name /\ sk.Scope = ScopeProject)
              => res[i].Scope = ScopeProject

\* GetResolved has returned the Project skill of a name loaded from both
\* scopes, next to a skill of another name
C11_Witness ==
  /\ last.op = "getResolved"
  /\ \E g, pr \in Loaded :
       /\ g.Name = pr.Name /\ g.Scope = ScopeGlobal /\ pr.Scope = ScopeProject
       /\ \E i \in DOMAIN last.skills : last.skills[i] = pr

\* C12: among the skills GetAll loads, two distinct skills of the same name
\* never have equal priority (at most one skill per (scope, name) pair).
C12_NoPriorityTies ==
  (last.op = "getAll") =>
    \A i, j \in DOMAIN last.skills :
      (i # j /\ last.skills[i].Name = last.skills[j].Name)
        => Priority(last.skills[i]) # Priority(last.skills[j])

\* C20: the list GetResolved returns is sorted by name, ascending in the
\* byte order of cmp.Compare.
C20_ResolvedSorted ==
  (last.op = "getResolved") =>
    \A i, j \in DOMAIN last.skills :
      i < j => NameLess(last.skills[i].Name, last.skills[j].Name)

\* GetResolved has returned two skills in the order opposite to the one
\* they were loaded in (Global skills are loaded before Project skills)
C20_Witness ==
  /\ last.op = "getResolved"
  /\ Len(last.skills) = 2
  /\ last.skills[1].Scope = ScopeProject
  /\ last.skills[2].Scope = ScopeGlobal
  /\ NameLess(last.skills[1].Name, last.skills[2].Name)

\* ---- helpers over the result of GetStatus
\* the resolved skills the GetStatus that just ran compares against
Expected ==
  {sk \in Range(GetResolved(last.before, projectRoot)) :
     last.scope = NoScope \/ sk.Scope = last.scope}

\* something is reachable at the target's skills path of the skill's scope
PresentAt(t, sk) ==
  /\ (sk.Scope = ScopeProject => projectRoot)
  /\ Stat(last.before, TargetPath(t, sk.Scope, sk.Name)).kind = "dir"

\* the names of the entries lying under the target's skills paths
ListedAt(t) ==
  {k[3] : k \in {k \in DOMAIN last.before.tgt :
                   /\ k[1] = t
                   /\ last.before.tgt[k].kind # "none"
                   /\ (k[2] = ScopeProject => projectRoot)}}

Occurrences(seq, x) == Cardinality({i \in DOMAIN seq : seq[i] = x})

\* C13: for every target GetStatus classifies each resolved name exactly
\* once, as Installed if it is present at the target's skills path of the
\* skill's own scope and as Missing otherwise, reports as Extra exactly the
\* listed names absent from the resolved set, and sets InSync iff Missing
\* and Extra are empty and no error occurred.
C13_StatusClassifies ==
  (last.op = "status") =>
    \A i \in DOMAIN last.statuses :
      LET st == last.statuses[i] IN
      IF st.Error THEN ~st.InSync
      ELSE
        /\ \A sk \in Expected :
             /\ Occurrences(st.Installed, sk.Name)
                  + Occurrences(st.Missing, sk.Name) = 1
             /\ Occurrences(st.Installed, sk.Name) = 1 <=> PresentAt(st.Target, sk)
        /\ Range(st.Installed) \cup Range(st.Missing) = {sk.Name : sk \in Expected}
        /\ st.Extra = ListedAt(st.Target) \ {sk.Name : sk \in Expected}
        /\ st.InSync <=> (st.Missing = <<>> /\ st.Extra = {})

\* GetStatus has reported, for one target, one resolved name as Installed
\* and another as Missing, and for the other target a failed listing
C13_Witness ==
  /\ last.op = "status"
  /\ \E i \in DOMAIN last.statuses :
       /\ ~last.statuses[i].Error
       /\ last.statuses[i].Installed # <<>>
       /\ last.statuses[i].Missing # <<>>
  /\ \E i \in DOMAIN last.statuses : last.statuses[i].Error

\* ---- helpers over the entries Sync finds at the targets
\* the places under the targets' skills paths that held, before the command,
\* an entry whose name is not in the resolved set
ExtraPlaces ==
  {k \in DOMAIN last.before.tgt :
     /\ last.before.tgt[k].kind # "none"
     /\ k[3] \notin namesOf(GetResolved(last.before, projectRoot))}

C15_StatusMutatesNothing ==
  (last.op = "status") => (store = last.before.store /\ tgt = last.before.tgt)

\* GetStatus has reported an entry as Extra at one target while the listing
\* of the other target failed
C15_Witness ==
  /\ last.op = "status"
  /\ \E i \in DOMAIN last.statuses : last.statuses[i].Error
  /\ \E i \in DOMAIN last.statuses : last.statuses[i].Extra # {}
  /\ store = last.before.store /\ tgt = last.before.tgt

\* ---- ValidateName applied to arbitrary strings
\* the characters the strings are made of: letters, a digit, the two allowed
\* marks, the dot, both separators and a blank
NameAlphabet == {"a", "Z", "0", "-", "_", ".", "/", "\\", " "}

Strings == UNION {[1..n -> NameAlphabet] : n \in 0..MaxNameLen}

InitNames ==
  /\ store = [k \in StoreKeys |-> NoEntry]
  /\ tgt = [k \in TargetKeys |-> NoEntry]
  /\ enabled = defaultTargets /\ strategy = StrategySymlink /\ projectRoot = TRUE
  /\ last = NoCommand

DoValidateName ==
  /\ last = NoCommand
  /\ \E name \in Strings :
       last' = [op |-> "validateName", name |-> name, ok |-> ValidateName(name)]
  /\ UNCHANGED <<store, tgt, enabled, strategy, projectRoot>>

NextNames ==
  \/ DoValidateName
  \/ Exit

NamesSpec == InitNames /\ [][NextNames]_vars

\* ---- discovery over what users put under the targets' skills paths
DiscoverKeys == defaultTargets \X Scopes \X AllNames

\* a directory whose nearest SKILL.md is missing, directly inside, at the
\* deepest level searched or one level below it; or a link into the store
DiscoverEntries(k) ==
  {DirEntry(md, TRUE, <<"target", k[1], k[2]>>) :
     md \in {-1, 0, maxValidationDepth, maxValidationDepth + 1}}
    \cup {LinkEntry(StorePath(k[2], CategoryDefault, NameA))}

InitDiscover ==
  /\ store \in InitStores
  /\ \E K \in {K \in SUBSET DiscoverKeys : Cardinality(K) <= MaxHeld} :
       \E h \in [K -> UNION {DiscoverEntries(k) : k \in K}] :
         /\ \A k \in K : h[k] \in DiscoverEntries(k)
         /\ tgt = [k \in DiscoverKeys |-> IF k \in K THEN h[k] ELSE NoEntry]
  /\ InitConfig
  /\ last = NoCommand

\* the discovery step of skillet migrate
DoFindSkillsToMigrate ==
  /\ last = NoCommand
  /\ \E scope \in Scopes, targets \in Orders(enabled) :
       /\ (scope = ScopeProject => projectRoot)
       /\ last' = [op |-> "find", scope |-> scope,
                   found |-> FindSkillsToMigrate(FS, Cfg(scope = ScopeProject),
                                                 scope, targets)]
  /\ UNCHANGED <<store, tgt, enabled, strategy, projectRoot>>

NextDiscover ==
  \/ DoFindSkillsToMigrate
  \/ Exit

DiscoverSpec == InitDiscover /\ [][NextDiscover]_vars

\* ---- the Store's loaders over directories of every kind
LoaderNames == AllNames \cup {NameB}
LoaderKeys == Scopes \X Categories \X LoaderNames

\* a directory whose nearest SKILL.md is missing, directly inside, at the
\* deepest level searched or one level below it, with a frontmatter that
\* parses or not
LoaderEntries(k) ==
  {DirEntry(md, fm, <<"store", k[1], k[2]>>) :
     md \in {-1, 0, maxSearchDepth, maxSearchDepth + 1}, fm \in BOOLEAN}

InitLoader ==
  /\ \E K \in {K \in SUBSET LoaderKeys : Cardinality(K) <= MaxStored} :
       \E h \in [K -> UNION {LoaderEntries(k) : k \in K}] :
         /\ \A k \in K : h[k] \in LoaderEntries(k)
         /\ store = [k \in LoaderKeys |-> IF k \in K THEN h[k] ELSE NoEntry]
  /\ tgt = [k \in TargetKeys |-> NoEntry]
  /\ enabled = defaultTargets /\ strategy = StrategySymlink
  /\ projectRoot \in BOOLEAN
  /\ last = NoCommand

\* Store.GetByName
DoGetByName ==
  /\ last = NoCommand
  /\ \E name \in LoaderNames :
       last' = [op |-> "getByName", name |-> name, before |-> FS,
                skills |-> GetByName(FS, projectRoot, name)]
  /\ UNCHANGED <<store, tgt, enabled, strategy, projectRoot>>

\* Store.GetByScope
DoGetByScope ==
  /\ last = NoCommand
  /\ \E scope \in Scopes :
       last' = [op |-> "getByScope", scope |-> scope, before |-> FS,
                skills |-> GetByScope(FS, projectRoot, scope)]
  /\ UNCHANGED <<store, tgt, enabled, strategy, projectRoot>>

NextLoader ==
  \/ DoGetAll
  \/ DoGetResolved
  \/ DoGetByName
  \/ DoGetByScope
  \/ Exit

LoaderSpec == InitLoader /\ [][NextLoader]_vars

\* ---- two sync commands running at the same time
\* Each process runs Sync on its own; the two share the filesystem only.
\* `last` holds, per process, where it stands: pc, its options, the pairs
\* still to be processed, and the Force and the action of the Install
\* under way.
Procs == {1, 2}

InitConcurrent ==
  /\ store \in InitStores
  /\ tgt \in InitTargets
  /\ InitConfig
  /\ \E dry, force \in [Procs -> BOOLEAN] :
       last = [op |-> "syncs", before |-> [store |-> store, tgt |-> tgt],
               proc |-> [p \in Procs |->
                          [pc |-> "load",
                           opts |-> [DryRun |-> dry[p], Force |-> force[p],
                                     Scope |-> NoScope],
                           pairs |-> <<>>, force |-> FALSE,
                           action |-> SyncActionSkip, results |-> <<>>]]]

\* the append of one result and the move to the next pair of the loops
nextPair(pr, action, err) ==
  [pr EXCEPT !.pairs = Tail(@),
             !.results = Append(@, SyncResult(Head(pr.pairs)[2], Head(pr.pairs)[1],
                                              action, err)),
             !.pc = IF Tail(pr.pairs) = <<>> THEN "done" ELSE "pair"]

\* Sync up to its loops: GetResolved, the scope filter, targets.GetAll
SyncLoad(p) ==
  /\ last.proc[p].pc = "load"
  /\ \E targets \in Orders(enabled) :
       LET pr == last.proc[p]
           resolved == GetResolved(FS, projectRoot)
           skills == IF pr.opts.Scope # NoScope
                     THEN filterSkillsByScope(resolved, pr.opts.Scope) ELSE resolved
           pairs == pairsOf(targets, skills)
       IN last' = [last EXCEPT !.proc[p] =
                     [pr EXCEPT !.pairs = pairs,
                                !.pc = IF pairs = <<>> THEN "done" ELSE "pair"]]
  /\ UNCHANGED <<store, tgt, enabled, strategy, projectRoot>>

\* one turn of the loops: IsInstalledInScope, then syncSkill up to its
\* call of Install
SyncPair(p) ==
  /\ last.proc[p].pc = "pair"
  /\ LET pr == last.proc[p]
         t == Head(pr.pairs)[1]
         sk == Head(pr.pairs)[2]
         isInstalled == IsInstalledInScope(FS, t, sk.Name, sk.Scope, projectRoot)
         action == IF isInstalled THEN SyncActionUpdate ELSE SyncActionInstall
     IN last' = [last EXCEPT !.proc[p] =
                   IF isInstalled /\ ~pr.opts.Force
                   THEN nextPair(pr, SyncActionSkip, FALSE)
                   ELSE IF pr.opts.DryRun THEN nextPair(pr, action, FALSE)
                   ELSE [pr EXCEPT !.pc = "exists", !.action = action,
                                   !.force = pr.opts.Force \/ isInstalled]]
  /\ UNCHANGED <<store, tgt, enabled, strategy, projectRoot>>

\* Install: GetSkillsPath and the Exists test of the destination
InstallExists(p) ==
  /\ last.proc[p].pc = "exists"
  /\ LET pr == last.proc[p]
         t == Head(pr.pairs)[1]
         sk == Head(pr.pairs)[2]
         there == Exists(FS, TargetPath(t, sk.Scope, sk.Name))
     IN last' = [last EXCEPT !.proc[p] =
                   IF GetSkillsPath(t, sk.Scope, projectRoot).err
                      \/ (there /\ ~pr.force)
                   THEN nextPair(pr, SyncActionError, TRUE)
                   ELSE [pr EXCEPT !.pc = IF there THEN "remove" ELSE "mkdir"]]
  /\ UNCHANGED <<store, tgt, enabled, strategy, projectRoot>>

\* Install: RemoveAll of the destination found by the Exists test
InstallRemoveAll(p) ==
  /\ last.proc[p].pc = "remove"
  /\ LET pr == last.proc[p]
         t == Head(pr.pairs)[1]
         sk == Head(pr.pairs)[2]
         r == RemoveAll(FS, TargetPath(t, sk.Scope, sk.Name), FALSE)
     IN /\ store' = r.fs.store
        /\ tgt' = r.fs.tgt
        /\ last' = [last EXCEPT !.proc[p].pc = "mkdir"]
  /\ UNCHANGED <<enabled, strategy, projectRoot>>

\* Install: MkdirAll of the skills directory, then the switch on Strategy
InstallMkdirAll(p) ==
  /\ last.proc[p].pc = "mkdir"
  /\ last' = [last EXCEPT !.proc[p].pc =
                 IF strategy = StrategyCopy THEN "copy" ELSE "symlink"]
  /\ UNCHANGED <<store, tgt, enabled, strategy, projectRoot>>

\* Install: Symlink; its failure leads to the CopyDir fallback
InstallSymlink(p) ==
  /\ last.proc[p].pc = "symlink"
  /\ LET pr == last.proc[p]
         t == Head(pr.pairs)[1]
         sk == Head(pr.pairs)[2]
         r == Symlink(FS, sk.Path, TargetPath(t, sk.Scope, sk.Name), FALSE)
     IN /\ store' = r.fs.store
        /\ tgt' = r.fs.tgt
        /\ last' = [last EXCEPT !.proc[p] =
                      IF r.err THEN [pr EXCEPT !.pc = "copy"]
                      ELSE nextPair(pr, pr.action, FALSE)]
  /\ UNCHANGED <<enabled, strategy, projectRoot>>

\* Install: CopyDir, as the strategy or as the fallback of a failed link
InstallCopyDir(p) ==
  /\ last.proc[p].pc = "copy"
  /\ LET pr == last.proc[p]
         t == Head(pr.pairs)[1]
         sk == Head(pr.pairs)[2]
         r == CopyDir(FS, sk.Path, TargetPath(t, sk.Scope, sk.Name), FALSE)
     IN /\ store' = r.fs.store
        /\ tgt' = r.fs.tgt
        /\ last' = [last EXCEPT !.proc[p] =
                      IF r.err THEN nextPair(pr, SyncActionError, TRUE)
                      ELSE nextPair(pr, pr.action, FALSE)]
  /\ UNCHANGED <<enabled, strategy, projectRoot>>

NextConcurrent ==
  \E p \in Procs :
    \/ SyncLoad(p)
    \/ SyncPair(p)
    \/ InstallExists(p)
    \/ InstallRemoveAll(p)
    \/ InstallMkdirAll(p)
    \/ InstallSymlink(p)
    \/ InstallCopyDir(p)

ConcurrentSpec == InitConcurrent /\ [][NextConcurrent]_vars

\* ---- helpers over a single Install or Uninstall
\* the place the Install that just ran writes to
InstallDest == TargetPath(last.target, last.skill.Scope, last.skill.Name)

\* C16: no target operation creates, modifies or deletes anything inside a
\* canonical store directory: after an Install or an Uninstall, whatever its
\* outcome, the store is what it was before.
C16_TargetsLeaveStore ==
  (last.op \in {"install", "uninstall"}) => store = last.before.store

\* a forced Install by copy has replaced a link that pointed into another
\* canonical directory, which is left as it was
C16_Witness ==
  /\ last.op = "install" /\ ~last.err /\ last.opts.Force
  /\ last.opts.Strategy = StrategyCopy
  /\ Lstat(last.before, InstallDest).kind = "link"
  /\ Lstat(last.before, InstallDest).to # last.skill.Path
  /\ Lstat(last.before, Lstat(last.before, InstallDest).to).kind = "dir"
  /\ Lstat(FS, InstallDest).kind = "dir"
  /\ store = last.before.store

\* C17: an Install with Force=false on a destination where something lies
\* fails and changes nothing; with Force=true (and no I/O failure) the entry
\* that lies there is removed and the new link or copy is created.  The
\* kind of the error is not told apart.
C17_InstallForce ==
  (/\ last.op = "install"
   /\ ~GetSkillsPath(last.target, last.skill.Scope, projectRoot).err
   /\ Lstat(last.before, InstallDest).kind # "none")
  => IF ~last.opts.Force
     THEN last.err /\ FS = last.before
     ELSE last.faults = {}
            => /\ ~last.err
               /\ Lstat(FS, InstallDest)
                    \in {LinkEntry(last.skill.Path), Stat(last.before, last.skill.Path)}

\* ---- helpers over a single Uninstall
UninstallPath(scope) == TargetPath(last.target, scope, last.name)

\* the name was installed under that scope before the Uninstall
WasInstalledIn(scope) ==
  IsInstalledInScope(last.before, last.target, last.name, scope, projectRoot)

\* C18: one Uninstall removes exactly one scope's entry, the Project one if
\* it exists and the Global one otherwise; when both exist the Global entry
\* is untouched by the first call and a second call clears it; with neither
\* present the call fails and changes nothing.
C18_UninstallOneScope ==
  (last.op = "uninstall") =>
    /\ (~WasInstalledIn(ScopeProject) /\ ~WasInstalledIn(ScopeGlobal))
         => (last.err /\ FS = last.before)
    /\ last.err => FS = last.before
    /\ ~last.err =>
         FS = Put(last.before,
                  UninstallPath(IF WasInstalledIn(ScopeProject)
                                THEN ScopeProject ELSE ScopeGlobal),
                  NoEntry)
    /\ (~last.err /\ WasInstalledIn(ScopeProject) /\ WasInstalledIn(ScopeGlobal))
         => LET second == Uninstall(FS, last.target, last.name, projectRoot, {}) IN
            /\ Lstat(FS, UninstallPath(ScopeGlobal))
                 = Lstat(last.before, UninstallPath(ScopeGlobal))
            /\ IsInstalled(FS, last.target, last.name, projectRoot)
            /\ ~second.err
            /\ Lstat(second.fs, UninstallPath(ScopeGlobal)).kind = "none"
            /\ ~IsInstalled(second.fs, last.target, last.name, projectRoot)

\* an Uninstall has removed the Project entry of a name the target held
\* under both scopes
C18_Witness ==
  /\ last.op = "uninstall" /\ ~last.err
  /\ WasInstalledIn(ScopeProject) /\ WasInstalledIn(ScopeGlobal)
  /\ Lstat(FS, UninstallPath(ScopeProject)).kind = "none"
  /\ Lstat(FS, UninstallPath(ScopeGlobal)).kind # "none"

\* the category of the resolved skill of that name before the command
ResolvedCategory(name) ==
  (CHOOSE sk \in Range(GetResolved(last.before, projectRoot)) :
     sk.Name = name).Category

\* C19: Optional skills are synchronized only by explicit selection: a Sync,
\* which takes no selection, never installs or updates a skill of the
\* Optional category.
C19_OptionalNotInstalled ==
  (last.op = "sync" /\ ~last.opts.DryRun) =>
    \A r \in Range(last.results) :
      (r.Action \in {SyncActionInstall, SyncActionUpdate})
        => ResolvedCategory(r.SkillName) # CategoryOptional

\* C21: dry-run output is reproducible: after a Sync with DryRun = true,
\* another Sync with the same options on the same unchanged state returns the
\* same list of results in the same order, whatever order the registry
\* yields the targets in.
C21_DryRunReproducible ==
  (last.op = "sync" /\ last.opts.DryRun) =>
    \A targets \in Orders(enabled) :
      Sync(FS, Cfg(projectRoot), last.opts, targets, {}).results = last.results

\* ---- the pattern ^[a-zA-Z0-9][a-zA-Z0-9_-]*$ read as a predicate
Contains(str, sub) ==
  \E i \in 1..(Len(str) - Len(sub) + 1) : SubSeq(str, i, i + Len(sub) - 1) = sub

MatchesPattern(str) ==
  /\ Len(str) >= 1
  /\ str[1] \in AlphaNum
  /\ {str[i] : i \in 2..Len(str)} \subseteq AlphaNum \cup {"_", "-"}

\* C22: ValidateName accepts a string iff it is non-empty, contains no '/',
\* no '\' and no '..', does not start with '.', and matches
\* ^[A-Za-z0-9][A-Za-z0-9_-]*$.
C22_ValidateNameAccepts ==
  (last.op = "validateName") =>
    (last.ok <=> /\ Len(last.name) > 0
                 /\ ~Contains(last.name, <<"/">>)
                 /\ ~Contains(last.name, <<"\\">>)
                 /\ ~Contains(last.name, <<".", ".">>)
                 /\ SubSeq(last.name, 1, 1) # <<".">>
                 /\ MatchesPattern(last.name))

\* ValidateName has accepted a name of the greatest length that holds a
\* hyphen or an underscore
C22_Witness ==
  /\ last.op = "validateName" /\ last.ok
  /\ Len(last.name) = MaxNameLen
  /\ \E i \in 2..Len(last.name) : last.name[i] \in {"-", "_"}

\* ---- helpers over the pairs one Sync went through
\* the skills the Sync that just ran worked on, and its pairs in order
SyncedSkills ==
  LET resolved == GetResolved(last.before, projectRoot) IN
  IF last.opts.Scope # NoScope
  THEN filterSkillsByScope(resolved, last.opts.Scope) ELSE resolved

SyncedPairs == pairsOf(last.targets, SyncedSkills)

\* the filesystem once the first i pairs were processed
FsAfterPair(i) ==
  syncPairs(last.before, SubSeq(SyncedPairs, 1, i), Cfg(projectRoot),
            last.opts, last.faults).fs

\* whether pair i was installed, for its skill's scope, when its turn came
InstalledAtTurn(i) ==
  IsInstalledInScope(FsAfterPair(i - 1), SyncedPairs[i][1], SyncedPairs[i][2].Name,
                     SyncedPairs[i][2].Scope, projectRoot)

\* Target.Install called for pair i with Force = (Force option) OR installed
InstallAtTurn(i) ==
  Install(FsAfterPair(i - 1), SyncedPairs[i][1], SyncedPairs[i][2],
          [Strategy |-> IF strategy = "" THEN StrategySymlink ELSE strategy,
           Force |-> last.opts.Force \/ InstalledAtTurn(i)],
          projectRoot, last.faults)

\* C23: for each (target, skill) pair, with installed evaluated when the
\* pair is processed, Sync reports Skip iff installed and Force is false,
\* Update iff installed and Force is true, Install iff not installed, unless
\* Target.Install fails (then Error); a live pair that is not skipped leaves
\* what Target.Install with Force = (Force option) OR installed leaves.
C23_SyncActionPerPair ==
  (last.op = "sync") =>
    /\ Len(last.results) = Len(SyncedPairs)
    /\ \A i \in DOMAIN last.results :
         LET r == last.results[i]
             failed == ~last.opts.DryRun /\ InstallAtTurn(i).err
         IN
         /\ r.Target = SyncedPairs[i][1] /\ r.SkillName = SyncedPairs[i][2].Name
         /\ (r.Action = SyncActionSkip) <=> (InstalledAtTurn(i) /\ ~last.opts.Force)
         /\ (r.Action = SyncActionUpdate)
              <=> (InstalledAtTurn(i) /\ last.opts.Force /\ ~failed)
         /\ (r.Action = SyncActionInstall) <=> (~InstalledAtTurn(i) /\ ~failed)
         /\ (r.Action = SyncActionError)
              <=> (failed /\ ~(InstalledAtTurn(i) /\ ~last.opts.Force))
         /\ FsAfterPair(i) = IF r.Action = SyncActionSkip \/ last.opts.DryRun
                             THEN FsAfterPair(i - 1) ELSE InstallAtTurn(i).fs
    /\ FS = FsAfterPair(Len(last.results))

\* a forced live Sync over two targets has reported an Update at the one
\* that held the skill and an Install at the other
C23_Witness ==
  /\ last.op = "sync" /\ ~last.opts.DryRun /\ last.opts.Force
  /\ \E i, j \in DOMAIN last.results :
       /\ last.results[i].Action = SyncActionUpdate /\ InstalledAtTurn(i)
       /\ last.results[j].Action = SyncActionInstall /\ ~InstalledAtTurn(j)

\* the results of the Sync that just ran for that target and skill name
ResultsFor(t, name) ==
  {i \in DOMAIN last.results :
     last.results[i].Target = t /\ last.results[i].SkillName = name}

\* an Error is recorded on exactly the pairs whose Target.Install failed
ErrorOnFailedPairOnly ==
  \A i \in DOMAIN last.results :
    /\ last.results[i].Error <=> (last.results[i].Action = SyncActionError)
    /\ (last.results[i].Action = SyncActionError)
         <=> /\ ~last.opts.DryRun
             /\ ~(InstalledAtTurn(i) /\ ~last.opts.Force)
             /\ InstallAtTurn(i).err

\* C24: an error from Target.Install is recorded as Error on its pair only
\* and does not end the batch: Sync returns exactly one result for each
\* (enabled target, resolved skill) pair.
C24_OneResultPerPair ==
  (last.op = "sync") =>
    /\ \A t \in enabled :
         \A sk \in Range(GetResolved(last.before, projectRoot)) :
           Cardinality(ResultsFor(t, sk.Name)) = 1
    /\ Len(last.results)
         = Cardinality(enabled) * Len(GetResolved(last.before, projectRoot))
    /\ ErrorOnFailedPairOnly

\* C24 (amended): the same, with exactly one result for each pair of an
\* enabled target and a resolved skill that passes the scope filter of the
\* call.
C24_OneResultPerFilteredPair ==
  (last.op = "sync") =>
    /\ \A t \in enabled :
         \A sk \in Range(SyncedSkills) : Cardinality(ResultsFor(t, sk.Name)) = 1
    /\ Len(last.results) = Cardinality(enabled) * Len(SyncedSkills)
    /\ ErrorOnFailedPairOnly

\* a live Sync has recorded an Error for a pair and installed the pair that
\* came after it
C24_Witness ==
  /\ last.op = "sync" /\ ~last.opts.DryRun
  /\ \E i, j \in DOMAIN last.results :
       /\ i < j
       /\ last.results[i].Action = SyncActionError
       /\ last.results[j].Action = SyncActionInstall
       /\ Lstat(FS, TargetPath(SyncedPairs[j][1], SyncedPairs[j][2].Scope,
                               SyncedPairs[j][2].Name)).kind # "none"

\* C25: with Force = false, Sync never removes, replaces or modifies an
\* entry that already lies at a target: a pair reported as Skip has no
\* filesystem effect, and every target entry present before the call is the
\* same after it.
C25_NoForceKeepsEntries ==
  (last.op = "sync" /\ ~last.opts.Force) =>
    /\ \A k \in DOMAIN tgt :
         last.before.tgt[k] # NoEntry => tgt[k] = last.before.tgt[k]
    /\ \A i \in DOMAIN last.results :
         last.results[i].Action = SyncActionSkip
           => FsAfterPair(i) = FsAfterPair(i - 1)

\* a live Sync without force has skipped a pair, installed another and
\* failed on a destination that held a dangling link
C25_Witness ==
  /\ last.op = "sync" /\ ~last.opts.Force /\ ~last.opts.DryRun
  /\ \E i, j \in DOMAIN last.results :
       /\ last.results[i].Action = SyncActionSkip
       /\ last.results[j].Action \in {SyncActionInstall, SyncActionError}
       /\ last.results[j].Action = SyncActionError
            => Lstat(last.before,
                     TargetPath(SyncedPairs[j][1], SyncedPairs[j][2].Scope,
                                SyncedPairs[j][2].Name)).kind = "link"

\* the entry at the destination of pair i of the Sync that just ran
EntryOfPair(i) ==
  Lstat(FS, TargetPath(SyncedPairs[i][1], SyncedPairs[i][2].Scope,
                       SyncedPairs[i][2].Name))

PlacedPairs ==
  {i \in DOMAIN last.results :
     last.results[i].Action \in {SyncActionInstall, SyncActionUpdate}}

\* C26: after a live Sync under the Symlink strategy, every pair reported as
\* Install or Update has at its destination a symbolic link pointing at the
\* canonical path of the resolved skill.
C26_SyncLeavesLinks ==
  (last.op = "sync" /\ ~last.opts.DryRun /\ strategy = StrategySymlink) =>
    \A i \in PlacedPairs : EntryOfPair(i) = LinkEntry(SyncedPairs[i][2].Path)

\* C26 (amended): every such pair has at its destination a symbolic link
\* pointing at the canonical path of the resolved skill, or, when the link
\* could not be created at that target, a copy of the canonical directory.
C26_SyncLeavesLinksOrCopies ==
  (last.op = "sync" /\ ~last.opts.DryRun /\ strategy = StrategySymlink) =>
    \A i \in PlacedPairs :
      EntryOfPair(i) = IF <<"symlink", SyncedPairs[i][1]>> \in last.faults
                       THEN Stat(last.before, SyncedPairs[i][2].Path)
                       ELSE LinkEntry(SyncedPairs[i][2].Path)

\* a live Sync under the Symlink strategy has linked a skill at one target
\* and copied it at the target where links cannot be created
C26_Witness ==
  /\ last.op = "sync" /\ ~last.opts.DryRun /\ strategy = StrategySymlink
  /\ \E i, j \in PlacedPairs :
       /\ EntryOfPair(i).kind = "link"
       /\ EntryOfPair(j).kind = "dir"
       /\ SyncedPairs[i][2] = SyncedPairs[j][2]

\* ---- helpers over the strategy step of one Install
\* the filesystem the strategy step of the Install that just ran started
\* from: the destination removed when it was seen and Force was set
FsAtStrategyStep ==
  IF Exists(last.before, InstallDest) /\ last.opts.Force
  THEN RemoveAll(last.before, InstallDest, <<"remove", last.target>> \in last.faults).fs
  ELSE last.before

SymlinkFails ==
  Symlink(FsAtStrategyStep, last.skill.Path, InstallDest,
          <<"symlink", last.target>> \in last.faults).err

CopyFails ==
  CopyDir(FsAtStrategyStep, last.skill.Path, InstallDest,
          <<"copy", last.target>> \in last.faults).err

\* the Install got as far as its strategy step
StrategyStepReached ==
  /\ ~GetSkillsPath(last.target, last.skill.Scope, projectRoot).err
  /\ Exists(last.before, InstallDest)
       => /\ last.opts.Force
          /\ ~RemoveAll(last.before, InstallDest,
                        <<"remove", last.target>> \in last.faults).err

\* under the Copy strategy no link is created, and a failed copy is the
\* error of the call and leaves nothing at the destination
CopyIsTerminal ==
  /\ Lstat(FS, InstallDest).kind = "link"
       => Lstat(FS, InstallDest) = Lstat(last.before, InstallDest)
  /\ (StrategyStepReached /\ CopyFails) => (last.err /\ FS = FsAtStrategyStep)

ShadowedGlobal ==
  {sk \in Range(GetAll(last.before, projectRoot)) :
     /\ sk.Scope = ScopeGlobal
     /\ \E res \in Range(GetResolved(last.before, projectRoot)) :
          res.Name = sk.Name /\ res.Scope = ScopeProject}

\* C28: the scope filter of Sync is applied after priority resolution: a
\* scope-filtered Sync returns results exactly for the resolved skills whose
\* scope equals the filter, so a Global skill shadowed by a same-named
\* Project skill gets no result from a Global-filtered Sync and nothing is
\* put at its Global destination.
C28_FilterAfterResolution ==
  (last.op = "sync" /\ last.opts.Scope # NoScope) =>
    /\ {r.SkillName : r \in Range(last.results)}
         = {sk.Name : sk \in {sk \in Range(GetResolved(last.before, projectRoot)) :
                                sk.Scope = last.opts.Scope}}
    /\ last.opts.Scope = ScopeGlobal =>
         \A sk \in ShadowedGlobal :
           /\ \A r \in Range(last.results) : r.SkillName # sk.Name
           /\ \A t \in enabled :
                Lstat(FS, TargetPath(t, ScopeGlobal, sk.Name))
                  = Lstat(last.before, TargetPath(t, ScopeGlobal, sk.Name))

\* a live Global-filtered Sync has run over a store whose Global skill is
\* shadowed by a Project skill, with nothing installed at its Global
\* destination before or after
C28_Witness ==
  /\ last.op = "sync" /\ ~last.opts.DryRun /\ last.opts.Scope = ScopeGlobal
  /\ \E sk \in ShadowedGlobal :
       \A t \in enabled :
         Lstat(FS, TargetPath(t, ScopeGlobal, sk.Name)).kind = "none"

\* the discovery that just ran returned that name for that target
Found(t, n) ==
  /\ t \in DOMAIN last.found
  /\ \E i \in DOMAIN last.found[t] : last.found[t][i] = n

\* the entry directly under the target's skills path for the chosen scope
Candidate(t, n) == tgt[<<t, last.scope, n>>]

\* C29: FindSkillsToMigrate returns a name for a target iff the target is
\* enabled and the entry of that name directly under its skills path for the
\* chosen scope is a directory, not a symbolic link, with a name ValidateName
\* accepts and a SKILL.md within the searched depth; links, invalid names,
\* directories without a manifest and entries of disabled targets are never
\* returned.
C29_FindReturnsPlainSkillDirs ==
  (last.op = "find") =>
    \A t \in defaultTargets, n \in AllNames :
      Found(t, n) <=> /\ t \in enabled
                      /\ Candidate(t, n).kind = "dir"
                      /\ ValidateName(n)
                      /\ Candidate(t, n).md \in 0..maxValidationDepth

\* a discovery has returned a directory whose SKILL.md is at the deepest
\* level searched, and not the entry of an invalid name beside it
C29_Witness ==
  /\ last.op = "find"
  /\ \E t \in enabled :
       /\ Found(t, NameA)
       /\ Candidate(t, NameA).md = maxValidationDepth
       /\ \E n \in InvalidNames :
            Candidate(t, n).kind = "dir" /\ Candidate(t, n).md = 0 /\ ~Found(t, n)

\* the discovered sources whose name was already taken at the canonical
\* destination when the Migrate started
TakenAtDestination ==
  {d \in Discovered : Exists(last.before, MigrateDst(d[2]))}

MoveResultsOf(d) ==
  {r \in Range(last.result.MoveResults) :
     r.FromTarget = d[1] /\ r.SkillName = d[2]}

MigrateSrc(d) == TargetPath(d[1], last.opts.Scope, d[2])

\* C30: when a directory of the same name already exists at the canonical
\* destination, the move step removes the source from the target and
\* records Skipped (Error, with the source left in place, when the removal
\* fails), and the existing canonical directory is the same after the move
\* step and at the end of the Migrate.
C30_ExistingCanonicalKept ==
  (last.op = "migrate") =>
    \A d \in TakenAtDestination :
      /\ Lstat(last.afterMove, MigrateDst(d[2])) = Lstat(last.before, MigrateDst(d[2]))
      /\ Lstat(FS, MigrateDst(d[2])) = Lstat(last.before, MigrateDst(d[2]))
      /\ Cardinality(MoveResultsOf(d)) = 1
      /\ \A r \in MoveResultsOf(d) :
           IF <<"remove", d[1]>> \in last.faults
           THEN /\ r.Action = MigrateActionError
                /\ Lstat(last.afterMove, MigrateSrc(d)) = Lstat(last.before, MigrateSrc(d))
           ELSE /\ r.Action = MigrateActionSkipped
                /\ Lstat(last.afterMove, MigrateSrc(d)).kind = "none"

\* a Migrate has skipped a source whose name was taken: the source, whose
\* content differed from the canonical directory, is gone from the target
\* and the canonical directory is as it was
C30_Witness ==
  /\ last.op = "migrate"
  /\ \E d \in TakenAtDestination :
       /\ \E r \in MoveResultsOf(d) : r.Action = MigrateActionSkipped
       /\ Lstat(last.before, MigrateSrc(d)) # Lstat(last.before, MigrateDst(d[2]))
       /\ Lstat(last.afterMove, MigrateSrc(d)).kind = "none"
       /\ Lstat(FS, MigrateDst(d[2])) = Lstat(last.before, MigrateDst(d[2]))

\* the positions of the move results of a discovered pair, and of the
\* results that say Moved for a name
MoveResultsAt(d) ==
  {i \in DOMAIN last.result.MoveResults :
     /\ last.result.MoveResults[i].FromTarget = d[1]
     /\ last.result.MoveResults[i].SkillName = d[2]}

MovedAt(n) ==
  {i \in DOMAIN last.result.MoveResults :
     /\ last.result.MoveResults[i].SkillName = n
     /\ last.result.MoveResults[i].Action = MigrateActionMoved}

\* C31: a filesystem error while removing or renaming one skill in the move
\* step is recorded as Error for that pair, whose source stays, and the
\* processing goes on: every discovered pair yields exactly one move result,
\* every pair without Error has lost its source, and for each skill name at
\* most one result is Moved.
C31_MoveErrorsPerPair ==
  (last.op = "migrate") =>
    /\ \A d \in Discovered : Cardinality(MoveResultsAt(d)) = 1
    /\ Len(last.result.MoveResults) = Cardinality(Discovered)
    /\ \A n \in ValidNames : Cardinality(MovedAt(n)) <= 1
    /\ \A d \in Discovered : \A i \in MoveResultsAt(d) :
         LET r == last.result.MoveResults[i] IN
         /\ r.Error <=> (r.Action = MigrateActionError)
         /\ IF r.Action = MigrateActionError
            THEN /\ \E op \in {"remove", "rename"} : <<op, d[1]>> \in last.faults
                 /\ Lstat(last.afterMove, MigrateSrc(d)) = Lstat(last.before, MigrateSrc(d))
            ELSE Lstat(last.afterMove, MigrateSrc(d)).kind = "none"

\* a Migrate has recorded an Error for the pair it processed first and has
\* moved the same name from the target that came after it
C31_Witness ==
  /\ last.op = "migrate"
  /\ \E i, j \in DOMAIN last.result.MoveResults :
       /\ i < j
       /\ last.result.MoveResults[i].Action = MigrateActionError
       /\ last.result.MoveResults[j].Action = MigrateActionMoved
       /\ last.result.MoveResults[i].SkillName = last.result.MoveResults[j].SkillName

\* ---- helpers over what the Store loads
\* the directory at key k of the store can be loaded: its SKILL.md lies
\* within the searched depth and its frontmatter parses, and its basename
\* is a valid name
Loadable(k) ==
  /\ store[k].kind = "dir"
  /\ store[k].md \in 0..maxSearchDepth
  /\ store[k].fm
  /\ ValidateName(k[3])

\* the directories GetAll walks: the Global ones, and the Project ones
\* when a project root is known
WalkedKeys == {k \in DOMAIN store : k[1] = ScopeProject => projectRoot}

ReturnedAt(k) ==
  {i \in DOMAIN last.skills : last.skills[i].Path = StorePath(k[1], k[2], k[3])}

\* C32: a skill directory whose manifest is missing or malformed is skipped
\* without failing the load: GetAll returns exactly the loadable skill
\* directories, each once, and GetResolved returns an entry for the name of
\* every loadable directory and for no other name.
C32_UnloadableSkipped ==
  /\ (last.op = "getAll") =>
       /\ \A k \in WalkedKeys :
            Cardinality(ReturnedAt(k)) = IF Loadable(k) THEN 1 ELSE 0
       /\ Len(last.skills) = Cardinality({k \in WalkedKeys : Loadable(k)})
  /\ (last.op = "getResolved") =>
       {sk.Name : sk \in Range(last.skills)}
         = {k[3] : k \in {k \in WalkedKeys : Loadable(k)}}

\* GetAll has returned the one loadable skill of a directory that also holds
\* a skill directory with a malformed manifest, listed before it
C32_Witness ==
  /\ last.op = "getAll" /\ Len(last.skills) = 1
  /\ \E k \in WalkedKeys :
       /\ k[3] = NameA /\ store[k].kind = "dir" /\ store[k].md = 0 /\ ~store[k].fm
       /\ Loadable(<<k[1], k[2], NameB>>)

\* the directory at key k of the store, put under a target's skills path,
\* is returned by migration discovery
DiscoveredIfAtTarget(k) ==
  LET t == CHOOSE t \in defaultTargets : TRUE
      fs == [store |-> store,
             tgt |-> [j \in TargetKeys |->
                        IF j = <<t, ScopeGlobal, NameA>> THEN store[k] ELSE NoEntry]]
  IN ListMigratable(fs, t, ScopeGlobal, projectRoot) = <<NameA>>

\* C34: the manifest search is bounded to 5 levels: a SKILL.md is found when
\* it lies directly in the skill directory or at most 5 levels below it and
\* not at any greater depth; the Store's loader (findSkillFile and with it
\* GetAll), the Store's candidate check (isValidSkillDir) and migration
\* discovery all apply this bound.
C34_SearchBoundedToFive ==
  (last.op = "getAll") =>
    \A k \in WalkedKeys :
      store[k].kind = "dir" =>
        /\ findSkillFile(store[k]) <=> store[k].md \in 0..5
        /\ isValidSkillDir(FS, StorePath(k[1], k[2], k[3])) <=> store[k].md \in 0..5
        /\ DiscoveredIfAtTarget(k) <=> store[k].md \in 0..5
        /\ (store[k].fm /\ ValidateName(k[3]))
             => (ReturnedAt(k) # {} <=> store[k].md \in 0..5)

\* GetAll has returned a skill whose SKILL.md lies 5 levels below its
\* directory and not the one whose SKILL.md lies 6 levels below
C34_Witness ==
  /\ last.op = "getAll"
  /\ \E k, j \in WalkedKeys :
       /\ store[k].kind = "dir" /\ store[k].md = 5 /\ ReturnedAt(k) # {}
       /\ store[j].kind = "dir" /\ store[j].md = 6 /\ store[j].fm
       /\ ValidateName(j[3]) /\ ReturnedAt(j) = {}

\* C37: every skill returned by the Store (GetAll, GetByScope, GetResolved,
\* GetByName) has a name equal to the basename of its canonical directory
\* and accepted by ValidateName, so the destination Install builds from the
\* name is a direct child of the target's skills directory: the name holds
\* no separator and is neither "." nor "..".
C37_ReturnedNamesAreBasenames ==
  (last.op \in {"getAll", "getByScope", "getResolved", "getByName"}) =>
    \A sk \in Range(last.skills) :
      /\ sk.Name = sk.Path[4]
      /\ ValidateName(sk.Name)
      /\ \A i \in DOMAIN sk.Name : sk.Name[i] \notin {"/", "\\"}
      /\ sk.Name \notin {<<".">>, <<".", ".">>}
      /\ store[<<sk.Scope, sk.Category, sk.Name>>].kind = "dir"

\* GetByScope has returned the skill of a valid name and not the directory
\* of an invalid name that lies beside it with a well-formed manifest
C37_Witness ==
  /\ last.op = "getByScope" /\ Len(last.skills) = 1
  /\ \E k \in WalkedKeys :
       /\ k[1] = last.scope /\ ~ValidateName(k[3])
       /\ store[k].kind = "dir" /\ store[k].md = 0 /\ store[k].fm
       /\ last.skills[1].Category = k[2]

\* the entries of GetResolved that carry the name GetByName was asked for
ResolvedNamed ==
  {sk \in Range(GetResolved(FS, projectRoot)) : sk.Name = last.name}

\* C39: GetByName and GetResolved agree: for every valid name, GetByName
\* succeeds iff GetResolved has an entry of that name, and then returns the
\* same skill (same scope, category and path) as that entry.
C39_GetByNameAgreesWithResolved ==
  (last.op = "getByName" /\ ValidateName(last.name)) =>
    /\ last.skills # <<>> <=> ResolvedNamed # {}
    /\ last.skills # <<>> => ResolvedNamed = {last.skills[1]}

\* GetByName has returned the Project skill of a name that the Global
\* store holds too
C39_Witness ==
  /\ last.op = "getByName" /\ last.skills # <<>>
  /\ last.skills[1].Scope = ScopeProject
  /\ \E cat \in Categories : Loadable(<<ScopeGlobal, cat, last.name>>)
  /\ ResolvedNamed = {last.skills[1]}

\* ---- helpers over a Remove that finds nothing to remove
\* no skill the store loads carries the name the Remove was given, in the
\* requested scope when one was given
NotCarried ==
  \A sk \in Range(GetAll(last.before, projectRoot)) :
    \/ sk.Name # last.opts.Name
    \/ (last.opts.Scope # NoScope /\ sk.Scope # last.opts.Scope)

\* C33: a Remove with a name ValidateName rejects, or with a name that no
\* skill in the store (or in the requested scope) carries, returns an error,
\* reports StoreRemoved = false, performs no removal and leaves the store
\* and every target unchanged.
C33_RemoveRejectsUnknownName ==
  (/\ last.op \in {"remove", "orchestratorRemove"}
   /\ (~ValidateName(last.opts.Name) \/ NotCarried))
  => /\ last.result.Error
     /\ ~last.result.StoreRemoved
     /\ last.result.TargetResults = <<>>
     /\ last.trace = <<>>
     /\ FS = last.before

\* a Remove limited to one scope has failed on a name that only the other
\* scope carries, while a target held an entry of that name: the skill and
\* the entry are still there
C33_Witness ==
  /\ last.op = "remove" /\ ValidateName(last.opts.Name)
  /\ last.opts.Scope # NoScope /\ NotCarried
  /\ \E sk \in Range(GetAll(FS, projectRoot)) : sk.Name = last.opts.Name
  /\ \E t \in enabled : IsInstalled(FS, t, last.opts.Name, projectRoot)
  /\ last.result.Error /\ FS = last.before

\* the scope that is not the one of the removed skill
OtherScope(sk) == IF sk.Scope = ScopeGlobal THEN ScopeProject ELSE ScopeGlobal

\* a skill of the same name stays in the store under the other scope
NamesakeStays(sk) ==
  \E o \in Range(GetAll(FS, projectRoot)) :
    o.Name = sk.Name /\ o.Scope = OtherScope(sk)

\* C35: a Remove of a skill found in scope S deletes, at each target, only
\* the entry under that target's scope-S skills path: the entry of the same
\* name under the other scope's skills path, belonging to a same-named skill
\* that stays in the store, is left untouched.
C35_RemoveKeepsOtherScope ==
  (last.op = "remove" /\ RemovedSkill # <<>> /\ NamesakeStays(RemovedSkill[1])) =>
    \A t \in defaultTargets :
      Lstat(FS, TargetPath(t, OtherScope(RemovedSkill[1]), RemovedSkill[1].Name))
        = Lstat(last.before,
                TargetPath(t, OtherScope(RemovedSkill[1]), RemovedSkill[1].Name))

\* C36: an Install that returns an error leaves the destination path in the
\* state it had before the call; in particular an entry that lay there
\* before a failed forced Install still lies there afterwards.
C36_FailedInstallKeepsDestination ==
  (last.op = "install" /\ last.err
     /\ ~GetSkillsPath(last.target, last.skill.Scope, projectRoot).err)
  => Lstat(FS, InstallDest) = Lstat(last.before, InstallDest)

\* ---- helpers over two concurrent sync commands
\* both commands have returned
BothFinished ==
  last.op = "syncs" /\ \A p \in Procs : last.proc[p].pc = "done"

\* both commands were live runs
BothLive == \A p \in Procs : ~last.proc[p].opts.DryRun

\* every skill resolved from the store the commands started with lies at
\* every enabled target
AllInstalled ==
  \A t \in enabled :
    \A sk \in Range(GetResolved(last.before, projectRoot)) :
      IsInstalledInScope(FS, t, sk.Name, sk.Scope, projectRoot)

\* C38: when two Sync commands run at the same time, with the filesystem
\* steps of Install (exists test, remove, mkdir, symlink, copy) interleaved
\* in any way, then once both have returned every resolved skill is
\* installed at every enabled target and no canonical store directory has
\* been modified.
C38_ConcurrentSyncsConverge ==
  (BothFinished /\ BothLive) => (AllInstalled /\ store = last.before.store)

====
